---- MODULE Spec2Model ----
(***************************************************************************)
(* Claw.Fund trading agent: the tick loop (agent/agentLoop.ts), the        *)
(* decision engine, the risk gate and the momentum scorer.                 *)
(*                                                                         *)
(* Numbers.  Fractions of the portfolio, confidences, normalised signals   *)
(* and signal deltas are fixed-point thousandths (0.15 is 150, 0.6 is      *)
(* 600); the momentum score is in thousandths of a point (75 is 75000).    *)
(* Times are epoch milliseconds, measured from the start of the process.   *)
(*                                                                         *)
(* Atomicity.  The agent is single-threaded JavaScript: code between two   *)
(* awaits runs without interleaving.  tick() awaits fetchTokens() once and *)
(* executeTrade() once per actionable decision, so an action of the model  *)
(* is one such synchronous segment.                                        *)
(*                                                                         *)
(* Environment.  The snapshot source and the execution boundary are the    *)
(* replaceable collaborators of the loop: fetchTokens() resolves after any *)
(* delay with any snapshot per token, executeTrade() resolves after any    *)
(* delay with success or failure, or rejects.                              *)
(***************************************************************************)
EXTENDS Integers, Sequences, FiniteSets, TLC

VARIABLES
    portfolioState,   \* [totalExposure, allocations, lastTradeTimestamps]
    now,              \* Date.now()
    ticks,            \* invocation number -> the locals of that tick() call
    started,          \* number of tick() invocations so far
    intervalArmed,    \* setInterval(tick, POLL_INTERVAL_MS) has been called
    nextFire,         \* time at which the interval timer is due next
    riskIn,           \* arguments of a stand-alone evaluateRisk call
    riskOut,          \* its result
    chain,            \* the contracts: block number, CLAW balances, Governance
    indexer           \* tokenIndexer.ts: cacheByAddress and what fetchTokens returned

vars == <<portfolioState, now, ticks, started, intervalArmed, nextFire, riskIn, riskOut, chain, indexer>>

---------------------------------------------------------------------------
\* Bounds of the model: the tokens tracked, and the number of times the clock
\* advances in a run (Spec) and in a run of the rising market (SpecRising).
NumTokens == 2
MaxAdvances == 2
MaxAdvancesRising == 3
MaxAdvancesSink == 1
\* Bounds of the contracts: the highest block number and the number of
\* proposals created in a run.
MaxBlock == 5
MaxProposals == 2
\* The largest amount of one trade, in whole native units.
MaxTradeAmount == 3
\* ProfitDistributor: the largest valuation reported, the largest amount paid
\* to one holder, the longest list of holders, and a cap on the profit credited
\* in a run.
MaxSyncValue == 5
MaxPayout == 2
MaxHolders == 2
MaxCredited == 4
\* Governance with token transfers: the number of proposals, the largest
\* amount of one transfer and the number of transfers in a run.
MaxProposalsTransfers == 1
MaxTransfer == 2
MaxTransfers == 1
\* Token indexer: the number of fetchTokens calls in a run.
MaxFetches == 3
\* QuestManager: the number of quests created in a run.
MaxQuests == 2

\* Program constants.
POLL_INTERVAL_MS == 10000
POSITION_SIZE == 100
maxAllocationPerToken == 150
maxTotalExposure == 600
minLiquidityUsd == 100000
cooldownMinutes == 5
W_PRICE == 40
W_VOLUME == 30
W_LIQUIDITY == 30
BUY_THRESHOLD == 75
SELL_THRESHOLD == 40
PRICE_CAP == 300
VOLUME_CAP == 5000
LIQUIDITY_CAP == 200

cooldownMs == cooldownMinutes * 60000

Min(a, b) == IF a < b THEN a ELSE b
Max(a, b) == IF a > b THEN a ELSE b

\* The first NumTokens entries of TOKEN_DEFS (indexer/tokenIndexer.ts).
TOKEN_DEFS == SubSeq(<<"ALPHA", "BETA", "GAMMA">>, 1, NumTokens)
Tokens == {TOKEN_DEFS[i] : i \in 1..Len(TOKEN_DEFS)}

\* The interval timer fires at most once per observed instant, so a run with n
\* clock advances has at most n + 1 invocations of tick.
TickIds == 1..(Max(Max(MaxAdvances, MaxAdvancesRising), MaxAdvancesSink) + 1)

---------------------------------------------------------------------------
\* Records keyed by token address (JavaScript objects used as maps).
EmptyMap == [x \in {} |-> 0]
Has(f, key) == key \in DOMAIN f
Get(f, key, default) == IF key \in DOMAIN f THEN f[key] ELSE default
Put(f, key, v) == [x \in (DOMAIN f) \cup {key} |-> IF x = key THEN v ELSE f[x]]

RECURSIVE SumOver(_, _)
SumOver(f, S) ==
    IF S = {} THEN 0
    ELSE LET x == CHOOSE y \in S : TRUE IN f[x] + SumOver(f, S \ {x})

\* Object.values(allocations).reduce((sum, v) => sum + v, 0)
sumAllocations(allocations) == SumOver(allocations, DOMAIN allocations)

---------------------------------------------------------------------------
\* Momentum scorer (strategies/momentumStrategy.ts).
clamp(v, lo, hi) == Min(Max(v, lo), hi)

\* (current - previous) / previous in thousandths, 0 when previous is 0
safeDelta(current, previous) ==
    IF previous = 0 THEN 0 ELSE ((current - previous) * 1000) \div previous

\* Mutant: the guarded ratio is 0, like the guarded delta.
safeRatio_zeroWhenGuarded(current, previous) ==
    IF previous = 0 THEN 0 ELSE (current * 1000) \div previous

\* current / previous in thousandths, 1 when previous is 0
safeRatio(current, previous) ==
    IF previous = 0 THEN 1000 ELSE (current * 1000) \div previous

\* Mutant: the shifted value is divided by cap, not by 2 * cap.
normalise_overCap(value, cap) == ((clamp(value, -cap, cap) + cap) * 1000) \div cap

\* -cap -> 0, 0 -> 0.5, +cap -> 1
normalise(value, cap) == ((clamp(value, -cap, cap) + cap) * 1000) \div (2 * cap)

\* Mutant: the thresholds are inclusive.
decide_inclusive(momentumScore) ==
    [action |-> IF momentumScore >= BUY_THRESHOLD * 1000 THEN "BUY"
                ELSE IF momentumScore <= SELL_THRESHOLD * 1000 THEN "SELL"
                ELSE "HOLD",
     confidence |-> momentumScore \div 100,
     momentumScore |-> momentumScore]

\* Mutant: the confidence is the score, not the score over 100.
decide_scoreAsConfidence(momentumScore) ==
    [action |-> IF momentumScore > BUY_THRESHOLD * 1000 THEN "BUY"
                ELSE IF momentumScore < SELL_THRESHOLD * 1000 THEN "SELL"
                ELSE "HOLD",
     confidence |-> momentumScore,
     momentumScore |-> momentumScore]

decide(momentumScore) ==
    [action |-> IF momentumScore > BUY_THRESHOLD * 1000 THEN "BUY"
                ELSE IF momentumScore < SELL_THRESHOLD * 1000 THEN "SELL"
                ELSE "HOLD",
     confidence |-> momentumScore \div 100,
     momentumScore |-> momentumScore]

score(md) ==
    LET priceChange5m == safeDelta(md.priceUsd, md.price5mAgo)
        volumeSpikeRatio == safeRatio(md.volume1m, md.volume5m)
        liquidityDelta == safeDelta(md.liquidity, md.previousLiquidity)
        priceNorm == normalise(priceChange5m, PRICE_CAP)
        volumeNorm == normalise(volumeSpikeRatio - 1000, VOLUME_CAP - 1000)
        liquidityNorm == normalise(liquidityDelta, LIQUIDITY_CAP)
        raw == priceNorm * W_PRICE + volumeNorm * W_VOLUME + liquidityNorm * W_LIQUIDITY
        momentumScore == clamp(raw, 0, 100 * 1000)
        result == decide(momentumScore)
    IN  [token |-> md.token,
         action |-> result.action,
         confidence |-> result.confidence,
         momentumScore |-> result.momentumScore,
         reason |-> <<"momentum">>,
         suggestedSize |-> IF result.action = "HOLD" THEN 0
                           ELSE (POSITION_SIZE * result.confidence) \div 1000]

\* MomentumStrategy.evaluate: tokens.map(md => this.score(md))
strategyEvaluate(tokens) == [i \in 1..Len(tokens) |-> score(tokens[i])]

---------------------------------------------------------------------------
\* Risk gate (risk/riskEngine.ts).  nowv is the value of Date.now().
RuleAllocation == "allocation cap"
RuleExposure == "exposure cap"
RuleLiquidity == "liquidity floor"
RuleCooldown == "cooldown"
NoReason == "undefined"

\* Mutant: the liquidity floor is checked before the two caps.
evaluateRisk_liquidityFirst(token, decision, ps, nowv) ==
    LET addr == token.token
        alloc == decision.suggestedSize
        projectedExposure == ps.totalExposure + alloc
    IN  IF token.liquidity < minLiquidityUsd
            THEN [pass |-> FALSE, reason |-> RuleLiquidity]
        ELSE IF alloc > maxAllocationPerToken
            THEN [pass |-> FALSE, reason |-> RuleAllocation]
        ELSE IF projectedExposure > maxTotalExposure
            THEN [pass |-> FALSE, reason |-> RuleExposure]
        ELSE IF /\ Has(ps.lastTradeTimestamps, addr)
                /\ nowv - ps.lastTradeTimestamps[addr] < cooldownMs
            THEN [pass |-> FALSE, reason |-> RuleCooldown]
        ELSE [pass |-> TRUE, reason |-> NoReason]

\* Mutant: a projected exposure equal to the cap fails the exposure rule.
evaluateRisk_exposureInclusive(token, decision, ps, nowv) ==
    LET addr == token.token
        alloc == decision.suggestedSize
        projectedExposure == ps.totalExposure + alloc
    IN  IF alloc > maxAllocationPerToken
            THEN [pass |-> FALSE, reason |-> RuleAllocation]
        ELSE IF projectedExposure >= maxTotalExposure
            THEN [pass |-> FALSE, reason |-> RuleExposure]
        ELSE IF token.liquidity < minLiquidityUsd
            THEN [pass |-> FALSE, reason |-> RuleLiquidity]
        ELSE IF /\ Has(ps.lastTradeTimestamps, addr)
                /\ nowv - ps.lastTradeTimestamps[addr] < cooldownMs
            THEN [pass |-> FALSE, reason |-> RuleCooldown]
        ELSE [pass |-> TRUE, reason |-> NoReason]

\* Mutant: the cooldown still blocks at exactly cooldownMinutes after the trade.
evaluateRisk_cooldownInclusive(token, decision, ps, nowv) ==
    LET addr == token.token
        alloc == decision.suggestedSize
        projectedExposure == ps.totalExposure + alloc
    IN  IF alloc > maxAllocationPerToken
            THEN [pass |-> FALSE, reason |-> RuleAllocation]
        ELSE IF projectedExposure > maxTotalExposure
            THEN [pass |-> FALSE, reason |-> RuleExposure]
        ELSE IF token.liquidity < minLiquidityUsd
            THEN [pass |-> FALSE, reason |-> RuleLiquidity]
        ELSE IF /\ Has(ps.lastTradeTimestamps, addr)
                /\ nowv - ps.lastTradeTimestamps[addr] <= cooldownMs
            THEN [pass |-> FALSE, reason |-> RuleCooldown]
        ELSE [pass |-> TRUE, reason |-> NoReason]

\* Mutant: the exposure cap is applied to a BUY only.
evaluateRisk_sellSkipsExposure(token, decision, ps, nowv) ==
    LET addr == token.token
        alloc == decision.suggestedSize
        projectedExposure == ps.totalExposure + alloc
    IN  IF alloc > maxAllocationPerToken
            THEN [pass |-> FALSE, reason |-> RuleAllocation]
        ELSE IF decision.action = "BUY" /\ projectedExposure > maxTotalExposure
            THEN [pass |-> FALSE, reason |-> RuleExposure]
        ELSE IF token.liquidity < minLiquidityUsd
            THEN [pass |-> FALSE, reason |-> RuleLiquidity]
        ELSE IF /\ Has(ps.lastTradeTimestamps, addr)
                /\ nowv - ps.lastTradeTimestamps[addr] < cooldownMs
            THEN [pass |-> FALSE, reason |-> RuleCooldown]
        ELSE [pass |-> TRUE, reason |-> NoReason]

evaluateRisk(token, decision, ps, nowv) ==
    LET addr == token.token
        alloc == decision.suggestedSize
        projectedExposure == ps.totalExposure + alloc
    IN  IF alloc > maxAllocationPerToken
            THEN [pass |-> FALSE, reason |-> RuleAllocation]
        ELSE IF projectedExposure > maxTotalExposure
            THEN [pass |-> FALSE, reason |-> RuleExposure]
        ELSE IF token.liquidity < minLiquidityUsd
            THEN [pass |-> FALSE, reason |-> RuleLiquidity]
        ELSE IF /\ Has(ps.lastTradeTimestamps, addr)
                /\ nowv - ps.lastTradeTimestamps[addr] < cooldownMs
            THEN [pass |-> FALSE, reason |-> RuleCooldown]
        ELSE [pass |-> TRUE, reason |-> NoReason]

---------------------------------------------------------------------------
\* Decision engine (engine/decisionEngine.ts), with the one strategy that
\* startAgentLoop registers.
\* Mutant: the downgrade replaces the rationale instead of appending to it.
gate_dropsRationale(tokens, d, ps, nowv) ==
    IF d.action = "HOLD" THEN d
    ELSE IF ~ \E i \in 1..Len(tokens) : tokens[i].token = d.token THEN d
    ELSE LET md == tokens[CHOOSE i \in 1..Len(tokens) : tokens[i].token = d.token]
             riskResult == evaluateRisk(md, d, ps, nowv)
         IN  IF ~riskResult.pass
                 THEN [d EXCEPT !.action = "HOLD",
                                !.suggestedSize = 0,
                                !.reason = <<"RISK BLOCKED", riskResult.reason>>]
                 ELSE d

\* Mutant: the downgrade keeps the size the strategy suggested.
gate_keepsSize(tokens, d, ps, nowv) ==
    IF d.action = "HOLD" THEN d
    ELSE IF ~ \E i \in 1..Len(tokens) : tokens[i].token = d.token THEN d
    ELSE LET md == tokens[CHOOSE i \in 1..Len(tokens) : tokens[i].token = d.token]
             riskResult == evaluateRisk(md, d, ps, nowv)
         IN  IF ~riskResult.pass
                 THEN [d EXCEPT !.action = "HOLD",
                                !.reason = d.reason \o <<"RISK BLOCKED", riskResult.reason>>]
                 ELSE d

\* Mutant: a decision without a snapshot is downgraded instead of passed.
gate_blocksMissing(tokens, d, ps, nowv) ==
    IF d.action = "HOLD" THEN d
    ELSE IF ~ \E i \in 1..Len(tokens) : tokens[i].token = d.token
        THEN [d EXCEPT !.action = "HOLD",
                       !.suggestedSize = 0,
                       !.reason = d.reason \o <<"RISK BLOCKED", "no snapshot">>]
    ELSE LET md == tokens[CHOOSE i \in 1..Len(tokens) : tokens[i].token = d.token]
             riskResult == evaluateRisk(md, d, ps, nowv)
         IN  IF ~riskResult.pass
                 THEN [d EXCEPT !.action = "HOLD",
                                !.suggestedSize = 0,
                                !.reason = d.reason \o <<"RISK BLOCKED", riskResult.reason>>]
                 ELSE d

gate(tokens, d, ps, nowv) ==
    IF d.action = "HOLD" THEN d
    ELSE IF ~ \E i \in 1..Len(tokens) : tokens[i].token = d.token THEN d
    ELSE LET md == tokens[CHOOSE i \in 1..Len(tokens) : tokens[i].token = d.token]
             riskResult == evaluateRisk(md, d, ps, nowv)
         IN  IF ~riskResult.pass
                 THEN [d EXCEPT !.action = "HOLD",
                                !.suggestedSize = 0,
                                !.reason = d.reason \o <<"RISK BLOCKED", riskResult.reason>>]
                 ELSE d

\* What evaluate logs for one decision: the strategy line (lines 151-156) and,
\* for a downgrade, the risk-gate line (line 166).
LogLine(level, text) == [level |-> level, text |-> text]
gateLog(tokens, d, ps, nowv) ==
    <<LogLine("info", "strategy decision")>> \o
    (IF d.action # "HOLD" /\ gate(tokens, d, ps, nowv) # d
         THEN <<LogLine("info", "[RiskGate] -> HOLD")>>
         ELSE <<>>)

evaluate(tokens, ps, nowv) ==
    LET decisions == strategyEvaluate(tokens)
    IN  [i \in 1..Len(decisions) |-> gate(tokens, decisions[i], ps, nowv)]

---------------------------------------------------------------------------
\* Snapshots the source may return for a token (fetchTokens, TokenMarketData).
SnapUp ==
    [priceUsd |-> 130, price5mAgo |-> 100, volume1m |-> 500, volume5m |-> 100,
     liquidity |-> 240000, previousLiquidity |-> 200000]
SnapFlat ==
    [priceUsd |-> 100, price5mAgo |-> 100, volume1m |-> 100, volume5m |-> 100,
     liquidity |-> 200000, previousLiquidity |-> 200000]
SnapDown ==
    [priceUsd |-> 70, price5mAgo |-> 100, volume1m |-> 0, volume5m |-> 100,
     liquidity |-> 160000, previousLiquidity |-> 200000]
Snapshots == {SnapUp, SnapFlat, SnapDown}
\* A rising token in a pool below the liquidity floor.
SnapThin == [SnapUp EXCEPT !.liquidity = 96000, !.previousLiquidity = 80000]

\* One TokenMarketData per entry of TOKEN_DEFS, in that order.
marketDataOf(choice) ==
    [i \in 1..Len(TOKEN_DEFS) |->
        [token |-> TOKEN_DEFS[i],
         priceUsd |-> choice[i].priceUsd, price5mAgo |-> choice[i].price5mAgo,
         volume1m |-> choice[i].volume1m, volume5m |-> choice[i].volume5m,
         liquidity |-> choice[i].liquidity,
         previousLiquidity |-> choice[i].previousLiquidity]]

\* What executeTrade may resolve with (ExecutionResult).
ExecSuccess == [success |-> TRUE, txHash |-> "0xhash", error |-> "undefined"]
ExecFailure == [success |-> FALSE, txHash |-> "undefined", error |-> "execution failed"]
ExecutionResults == {ExecSuccess, ExecFailure}

---------------------------------------------------------------------------
\* Tick loop (agent/agentLoop.ts).
IdleTick ==
    [pc |-> "idle", decisions |-> <<>>, actionable |-> <<>>, k |-> 0,
     executions |-> <<>>, events |-> <<>>, audit |-> <<>>, error |-> "none",
     sinkFailed |-> FALSE]
ReturnedTick == [IdleTick EXCEPT !.pc = "returned"]

InFlight(tk) == tk.pc \in {"fetch", "exec"}
Finished(tk) == tk.pc \in {"done", "aborted"}

Event(type, token) == [type |-> type, token |-> token]

\* Mutant: SELL subtracts without the clamp at 0.
updatePortfolio_unclamped(ps, decision, nowv) ==
    LET addr == decision.token
        size == decision.suggestedSize
        current == Get(ps.allocations, addr, 0)
        allocations ==
            IF decision.action = "BUY" THEN Put(ps.allocations, addr, current + size)
            ELSE IF decision.action = "SELL" THEN Put(ps.allocations, addr, current - size)
            ELSE ps.allocations
    IN  [ps EXCEPT !.allocations = allocations,
                   !.lastTradeTimestamps = Put(ps.lastTradeTimestamps, addr, nowv)]

\* Mutant: only a BUY stamps the last trade of the token.
updatePortfolio_stampsBuyOnly(ps, decision, nowv) ==
    LET addr == decision.token
        size == decision.suggestedSize
        current == Get(ps.allocations, addr, 0)
    IN  IF decision.action = "BUY"
            THEN [ps EXCEPT !.allocations = Put(ps.allocations, addr, current + size),
                            !.lastTradeTimestamps = Put(ps.lastTradeTimestamps, addr, nowv)]
        ELSE IF decision.action = "SELL"
            THEN [ps EXCEPT !.allocations = Put(ps.allocations, addr, Max(current - size, 0))]
        ELSE ps

\* Mutant: a SELL of a token with nothing allocated is a no-op.
updatePortfolio_skipsEmptySell(ps, decision, nowv) ==
    LET addr == decision.token
        size == decision.suggestedSize
        current == Get(ps.allocations, addr, 0)
    IN  IF decision.action = "BUY"
            THEN [ps EXCEPT !.allocations = Put(ps.allocations, addr, current + size),
                            !.lastTradeTimestamps = Put(ps.lastTradeTimestamps, addr, nowv)]
        ELSE IF decision.action = "SELL" /\ current > 0
            THEN [ps EXCEPT !.allocations = Put(ps.allocations, addr, Max(current - size, 0)),
                            !.lastTradeTimestamps = Put(ps.lastTradeTimestamps, addr, nowv)]
        ELSE ps

\* lines 113-121: the portfolio update for a successful execution
updatePortfolio(ps, decision, nowv) ==
    LET addr == decision.token
        size == decision.suggestedSize
        current == Get(ps.allocations, addr, 0)
        allocations ==
            IF decision.action = "BUY" THEN Put(ps.allocations, addr, current + size)
            ELSE IF decision.action = "SELL"
                THEN Put(ps.allocations, addr, Max(current - size, 0))
            ELSE ps.allocations
    IN  [ps EXCEPT !.allocations = allocations,
                   !.lastTradeTimestamps = Put(ps.lastTradeTimestamps, addr, nowv)]

\* Mutant: the portfolio is updated without looking at result.success.
handleResult_ignoresSuccess(tk, ps, result, nowv) ==
    LET decision == tk.actionable[tk.k]
        execution == [decision |-> decision, txHash |-> result.txHash,
                      success |-> result.success, error |-> result.error]
    IN  [tick |-> [tk EXCEPT !.executions = Append(@, execution),
                             !.events = IF result.success
                                        THEN Append(@, Event("TRADE_EXECUTED", decision.token))
                                        ELSE @,
                             !.k = @ + 1],
         ps |-> updatePortfolio(ps, decision, nowv)]

\* Mutant: a failed execution undoes the allocations of the tick's earlier
\* successful executions.
handleResult_rollsBack(tk, ps, result, nowv) ==
    LET decision == tk.actionable[tk.k]
        execution == [decision |-> decision, txHash |-> result.txHash,
                      success |-> result.success, error |-> result.error]
        undone == [a \in DOMAIN ps.allocations |->
                      IF \E i \in 1..Len(tk.executions) :
                             /\ tk.executions[i].success
                             /\ tk.executions[i].decision.token = a
                          THEN 0 ELSE ps.allocations[a]]
    IN  [tick |-> [tk EXCEPT !.executions = Append(@, execution),
                             !.events = IF result.success
                                        THEN Append(@, Event("TRADE_EXECUTED", decision.token))
                                        ELSE @,
                             !.k = @ + 1],
         ps |-> IF result.success THEN updatePortfolio(ps, decision, nowv)
                ELSE [ps EXCEPT !.allocations = undone]]

\* Mutant: PORTFOLIO_UPDATE is broadcast after every trade, inside the loop.
handleResult_updatesEachTrade(tk, ps, result, nowv) ==
    LET decision == tk.actionable[tk.k]
        execution == [decision |-> decision, txHash |-> result.txHash,
                      success |-> result.success, error |-> result.error]
    IN  [tick |-> [tk EXCEPT !.executions = Append(@, execution),
                             !.events = IF result.success
                                        THEN @ \o <<Event("TRADE_EXECUTED", decision.token),
                                                    Event("PORTFOLIO_UPDATE", "")>>
                                        ELSE @,
                             !.k = @ + 1],
         ps |-> IF result.success THEN updatePortfolio(ps, decision, nowv) ELSE ps]

\* lines 98-138: the handling of one result of executeTrade
handleResult(tk, ps, result, nowv) ==
    LET decision == tk.actionable[tk.k]
        execution == [decision |-> decision, txHash |-> result.txHash,
                      success |-> result.success, error |-> result.error]
    IN  [tick |-> [tk EXCEPT !.executions = Append(@, execution),
                             !.events = IF result.success
                                        THEN Append(@, Event("TRADE_EXECUTED", decision.token))
                                        ELSE @,
                             !.k = @ + 1],
         ps |-> IF result.success THEN updatePortfolio(ps, decision, nowv) ELSE ps]

\* lines 141-175: exposure recompute, PORTFOLIO_UPDATE, persistReasoning
finishTick(tk, ps, runId) ==
    [tick |-> [tk EXCEPT !.pc = "done",
                         !.events = Append(@, Event("PORTFOLIO_UPDATE", "")),
                         !.audit = <<[runId |-> runId,
                                      tokensEvaluated |-> Len(tk.decisions),
                                      decisions |-> tk.decisions,
                                      executions |-> tk.executions]>>],
     ps |-> [ps EXCEPT !.totalExposure = sumAllocations(ps.allocations)]]

\* line 96: the loop over actionable, up to its next await or its end
continueLoop(tk, ps, runId) ==
    IF tk.k <= Len(tk.actionable)
        THEN [tick |-> [tk EXCEPT !.pc = "exec"], ps |-> ps]
        ELSE finishTick(tk, ps, runId)

\* Mutant: startAgentLoop arms the timer only after a first tick that completed.
resumeMain_onlyAfterSuccess(t, tk) ==
    IF t = 1 /\ tk.pc = "done"
        THEN /\ intervalArmed' = TRUE
             /\ nextFire' = now + POLL_INTERVAL_MS
        ELSE UNCHANGED <<intervalArmed, nextFire>>

\* lines 183-186: startAgentLoop resumes after `await tick()` and arms the timer
resumeMain(t, tk) ==
    IF t = 1 /\ Finished(tk)
        THEN /\ intervalArmed' = TRUE
             /\ nextFire' = now + POLL_INTERVAL_MS
        ELSE UNCHANGED <<intervalArmed, nextFire>>

\* lines 176-179: the catch at the tick boundary
catchError(tk, msg) == [tk EXCEPT !.pc = "aborted", !.error = msg]

\* Persistence sink (db/database.ts).  dbFails: the insert statement throws.
\* The sink catches the error and logs it; nothing reaches the caller.
\* Mutant: saveDecision lets the error of the insert escape.
saveDecision_rethrows(dbFails) == [threw |-> dbFails, logged |-> dbFails]

saveDecision(dbFails) == [threw |-> FALSE, logged |-> dbFails]

saveExecution(dbFails) == [threw |-> FALSE, logged |-> dbFails]

\* The tick after a call of the sink inside its try block.
afterSave(saved, tk) ==
    LET noted == [tk EXCEPT !.sinkFailed = @ \/ saved.logged]
    IN  IF saved.threw THEN catchError(noted, "sink threw") ELSE noted

\* Mutant: the gate stamps the cooldown of every token it looks at.
evaluatePortfolio_stamps(tokens, ps, nowv) ==
    [ps EXCEPT !.lastTradeTimestamps =
        [a \in (DOMAIN @) \cup {tokens[i].token : i \in 1..Len(tokens)} |->
            IF \E i \in 1..Len(tokens) : tokens[i].token = a THEN nowv ELSE @[a]]]

\* The portfolio state after engine.evaluate: the engine and the gate read
\* portfolioState (part_002:206-242) and assign to none of its fields.
evaluatePortfolio(tokens, ps, nowv) == ps

\* Mutant: every decision, HOLD included, goes to the execution loop.
afterFetch_unfiltered(tk, ps, marketData, nowv, runId, dbFails) ==
    LET decisions == evaluate(marketData, ps, nowv)
        saved == afterSave(saveDecision(dbFails),
                           [tk EXCEPT !.decisions = decisions,
                                      !.events = Append(@, Event("DECISION", ""))])
    IN  IF saved.pc = "aborted"
            THEN [tick |-> saved, ps |-> evaluatePortfolio(marketData, ps, nowv)]
            ELSE continueLoop([saved EXCEPT !.actionable = decisions, !.k = 1],
                              evaluatePortfolio(marketData, ps, nowv), runId)

\* lines 63-94: from the resolution of fetchTokens to the loop
afterFetch(tk, ps, marketData, nowv, runId, dbFails) ==
    LET decisions == evaluate(marketData, ps, nowv)
        actionable == SelectSeq(decisions, LAMBDA d : d.action # "HOLD")
        saved == afterSave(saveDecision(dbFails),
                           [tk EXCEPT !.decisions = decisions,
                                      !.events = Append(@, Event("DECISION", ""))])
    IN  IF saved.pc = "aborted"
            THEN [tick |-> saved, ps |-> evaluatePortfolio(marketData, ps, nowv)]
            ELSE continueLoop([saved EXCEPT !.actionable = actionable, !.k = 1],
                              evaluatePortfolio(marketData, ps, nowv), runId)

\* The locals of the invocations that have returned are gone; what the catch
\* logged (log.error, line 178) stays in the log.
reclaim(tks) ==
    [t \in TickIds |-> IF Finished(tks[t])
                          THEN [ReturnedTick EXCEPT !.error = tks[t].error]
                          ELSE tks[t]]

NoRiskCall == [called |-> FALSE]

---------------------------------------------------------------------------
\* Mock token indexer (indexer/tokenIndexer.ts). Prices are in micro-USD,
\* volumes in thousandths, liquidity in USD; Math.random() is a draw in
\* thousandths and pct is in thousandths (100 = 0.10).
RandomDraws == {0, 999}
TokenBases ==
    <<[basePrice |-> 420000, baseVolume |-> 2100000, baseLiquidity |-> 420000],
      [basePrice |-> 87000, baseVolume |-> 970000, baseLiquidity |-> 435000],
      [basePrice |-> 15000, baseVolume |-> 210000, baseLiquidity |-> 150000]>>

\* base * (1 + (Math.random() - 0.5) * pct)
jitter(base, pct, random) == base + (base \div 1000) * (((random - 500) * pct) \div 1000)
clampPositive(n) == Max(n, 0)

initCacheEntry(basePrice, baseVolume, baseLiquidity) ==
    [priceUsd |-> basePrice, price1mAgo |-> basePrice, price5mAgo |-> basePrice,
     volume1m |-> baseVolume, volume5m |-> baseVolume,
     liquidity |-> baseLiquidity, previousLiquidity |-> baseLiquidity]

\* Mutant: the five-minute price is not shifted.
advanceCache_keepsFiveMinute(entry, basePrice, baseVolume, baseLiquidity, draw) ==
    [price5mAgo |-> entry.price5mAgo,
     price1mAgo |-> entry.priceUsd,
     priceUsd |-> clampPositive(jitter(entry.priceUsd, 100, draw.price)),
     volume5m |-> entry.volume1m,
     volume1m |-> clampPositive(jitter(baseVolume, 400, draw.volume)),
     previousLiquidity |-> entry.liquidity,
     liquidity |-> clampPositive(jitter(baseLiquidity, 80, draw.liquidity))]

\* draw holds the three Math.random() values of the call.
advanceCache(entry, basePrice, baseVolume, baseLiquidity, draw) ==
    [price5mAgo |-> entry.price1mAgo,
     price1mAgo |-> entry.priceUsd,
     priceUsd |-> clampPositive(jitter(entry.priceUsd, 100, draw.price)),
     volume5m |-> entry.volume1m,
     volume1m |-> clampPositive(jitter(baseVolume, 400, draw.volume)),
     previousLiquidity |-> entry.liquidity,
     liquidity |-> clampPositive(jitter(baseLiquidity, 80, draw.liquidity))]

\* The part of fetchTokens after the simulated latency: one synchronous loop
\* over TOKEN_DEFS. Returns the new cache and the results.
fetchTokens(cache, draws, nowv) ==
    LET next(i) ==
            LET def == TokenBases[i]
                prev == IF Has(cache, TOKEN_DEFS[i]) THEN cache[TOKEN_DEFS[i]]
                        ELSE initCacheEntry(def.basePrice, def.baseVolume, def.baseLiquidity)
            IN  advanceCache(prev, def.basePrice, def.baseVolume, def.baseLiquidity, draws[i])
    IN  [cache |-> [a \in Tokens |->
                       next(CHOOSE i \in 1..Len(TOKEN_DEFS) : TOKEN_DEFS[i] = a)],
         results |-> [i \in 1..Len(TOKEN_DEFS) |->
                        [token |-> TOKEN_DEFS[i],
                         priceUsd |-> next(i).priceUsd,
                         price1mAgo |-> next(i).price1mAgo,
                         price5mAgo |-> next(i).price5mAgo,
                         volume1m |-> next(i).volume1m,
                         volume5m |-> next(i).volume5m,
                         liquidity |-> next(i).liquidity,
                         previousLiquidity |-> next(i).previousLiquidity,
                         updatedAt |-> nowv]]]

\* The module after loading: an empty cache, nothing fetched. fetches, previous
\* and latest record what the callers of fetchTokens were handed.
ModuleLoaded == [cacheByAddress |-> EmptyMap, fetches |-> 0, previous |-> <<>>, latest |-> <<>>]

---------------------------------------------------------------------------
\* Governance (contracts/src/Governance.sol) and the CLAW balances it reads.
\* Amounts are whole tokens; the sums stay far below 2^256, so the checked
\* arithmetic of Solidity 0.8 never reverts here.
\* Constructor arguments of the deployment, scaled down (the tests deploy with
\* a period of 100 blocks and a minimum of 100 CLAW): any period > 0 goes.
votingPeriod == 2
minProposalTokens == 1

Accounts == {"voter1", "voter2", "attacker"}
InitialBalances ==
    [a \in Accounts |-> CASE a = "voter1" -> 2
                          [] a = "voter2" -> 1
                          [] a = "attacker" -> 0]

\* The value of proposals[pid] for a pid never written (storage default).
NoProposal ==
    [id |-> 0, proposer |-> "0x0", startBlock |-> 0, endBlock |-> 0,
     forVotes |-> 0, againstVotes |-> 0, executed |-> FALSE]
proposalAt(c, pid) == Get(c.proposals, pid, NoProposal)

\* A transaction and its outcome.
Call(fn, sender, pid, support) ==
    [fn |-> fn, sender |-> sender, pid |-> pid, support |-> support,
     ok |-> TRUE, reason |-> ""]
NoCall == [Call("none", "0x0", 0, FALSE) EXCEPT !.ok = FALSE]
\* A revert leaves the storage as it was.
Revert(c, call, reason) == [c EXCEPT !.last = [call EXCEPT !.ok = FALSE, !.reason = reason]]

---------------------------------------------------------------------------
\* AgentTreasury (contracts/src/AgentTreasury.sol). Amounts are whole native
\* units (1 = 1 MON) or whole tokens.
MAX_ALLOC_BPS == 2000
TradedTokens == {"CLAW", "FAKE"}
\* Valuations the agent may report.
TreasuryValues == {0, 5, 10}

\* The treasury after the deployment and funding of the tests: 10 MON, some
\* CLAW, CLAW whitelisted, a valuation of 10 MON.
DeployedTreasury ==
    [agent |-> "agent", governance |-> "governance", paused |-> FALSE,
     maxAllocationBps |-> MAX_ALLOC_BPS,
     totalTreasuryValue |-> 10,
     tokenAllocation |-> [t \in TradedTokens |-> 0],
     allowedTokens |-> [t \in TradedTokens |-> t = "CLAW"],
     nativeBalance |-> 10,
     tokenBalance |-> [t \in TradedTokens |-> IF t = "CLAW" THEN 3 ELSE 0]]

TreasuryCall(fn, sender, token, amount, isBuy) ==
    [fn |-> fn, sender |-> sender, token |-> token, amount |-> amount, isBuy |-> isBuy,
     ok |-> TRUE, reason |-> ""]

\* The risk check at the end of executeTrade.
allocPct(t, token) == (t.tokenAllocation[token] * 10000) \div t.totalTreasuryValue

\* The treasury after the transfer and the bookkeeping of a trade.
traded(t, token, amount, isBuy) ==
    IF isBuy
        THEN [t EXCEPT !.nativeBalance = @ - amount,
                       !.tokenAllocation[token] = @ + amount]
        ELSE [t EXCEPT !.tokenBalance[token] = @ - amount,
                       !.tokenAllocation[token] = IF @ >= amount THEN @ - amount ELSE 0]

treasuryExecuteTrade(c, sender, token, amount, isBuy) ==
    LET t == c.treasury
        call == TreasuryCall("executeTrade", sender, token, amount, isBuy)
        after == traded(t, token, amount, isBuy)
    IN  IF ~(sender = t.agent) THEN Revert(c, call, "caller is not agent")
        ELSE IF t.paused THEN Revert(c, call, "EnforcedPause")
        ELSE IF ~t.allowedTokens[token] THEN Revert(c, call, "token not allowed")
        ELSE IF ~(amount > 0) THEN Revert(c, call, "zero amount")
        ELSE IF isBuy /\ ~(t.nativeBalance >= amount)
            THEN Revert(c, call, "insufficient native balance")
        ELSE IF ~isBuy /\ ~(t.tokenBalance[token] >= amount)
            THEN Revert(c, call, "insufficient token balance")
        ELSE IF after.totalTreasuryValue > 0 /\ ~(allocPct(after, token) <= after.maxAllocationBps)
            THEN Revert(c, call, "allocation exceeds limit")
        ELSE [c EXCEPT !.treasury = after, !.last = call]

updateTreasuryValue(c, sender, value) ==
    LET call == TreasuryCall("updateTreasuryValue", sender, "", value, FALSE)
    IN  IF ~(sender = c.treasury.agent) THEN Revert(c, call, "caller is not agent")
        ELSE [c EXCEPT !.treasury.totalTreasuryValue = value, !.last = call]

---------------------------------------------------------------------------
\* ProfitDistributor (contracts/src/ProfitDistributor.sol). Amounts are in
\* half native units (2 = 1 MON), so that a profit below the threshold of
\* 1 MON exists.
PROFIT_THRESHOLD == 2
DISTRIBUTION_BPS == 5000
Holders == {"holder1", "holder2"}

\* The distributor after deployment and funding. credited and paid are history
\* fields: the sum of what syncTreasuryValue added to pendingDistribution and
\* the sum of the native amounts sent by distributeTo.
DeployedDistributor ==
    [agent |-> "agent", paused |-> FALSE,
     lastSnapshotValue |-> 0,
     profitThreshold |-> PROFIT_THRESHOLD,
     distributionBps |-> DISTRIBUTION_BPS,
     pendingDistribution |-> 0,
     balance |-> 6,
     credited |-> 0, paid |-> 0]

SyncCall(sender, currentValue, prev) ==
    [fn |-> "syncTreasuryValue", sender |-> sender, currentValue |-> currentValue,
     prev |-> prev, ok |-> TRUE, reason |-> ""]
DistributeCall(sender, holders, amounts) ==
    [fn |-> "distributeTo", sender |-> sender, holders |-> holders, amounts |-> amounts,
     ok |-> TRUE, reason |-> ""]

\* Mutant: the threshold is exclusive.
syncTreasuryValue_strictThreshold(c, sender, currentValue) ==
    LET d == c.distributor
        prev == d.lastSnapshotValue
        call == SyncCall(sender, currentValue, prev)
        profit == currentValue - prev
        distributable == (profit * d.distributionBps) \div 10000
    IN  IF ~(sender = d.agent) THEN Revert(c, call, "caller is not agent")
        ELSE IF d.paused THEN Revert(c, call, "EnforcedPause")
        ELSE IF currentValue > prev
            THEN IF profit > d.profitThreshold
                    THEN [c EXCEPT !.distributor.pendingDistribution = @ + distributable,
                                   !.distributor.lastSnapshotValue = currentValue,
                                   !.distributor.credited = @ + distributable,
                                   !.last = call]
                    ELSE [c EXCEPT !.last = call]
        ELSE [c EXCEPT !.distributor.lastSnapshotValue = currentValue, !.last = call]

syncTreasuryValue(c, sender, currentValue) ==
    LET d == c.distributor
        prev == d.lastSnapshotValue
        call == SyncCall(sender, currentValue, prev)
        profit == currentValue - prev
        distributable == (profit * d.distributionBps) \div 10000
    IN  IF ~(sender = d.agent) THEN Revert(c, call, "caller is not agent")
        ELSE IF d.paused THEN Revert(c, call, "EnforcedPause")
        ELSE IF currentValue > prev
            THEN IF profit >= d.profitThreshold
                    THEN [c EXCEPT !.distributor.pendingDistribution = @ + distributable,
                                   !.distributor.lastSnapshotValue = currentValue,
                                   !.distributor.credited = @ + distributable,
                                   !.last = call]
                    ELSE [c EXCEPT !.last = call]
        ELSE [c EXCEPT !.distributor.lastSnapshotValue = currentValue, !.last = call]

RECURSIVE SumSeq(_)
SumSeq(q) == IF q = <<>> THEN 0 ELSE Head(q) + SumSeq(Tail(q))

\* The holders are externally owned accounts: the native transfers succeed.
distributeTo(c, sender, holders, amounts) ==
    LET d == c.distributor
        call == DistributeCall(sender, holders, amounts)
        total == SumSeq(amounts)
    IN  IF ~(sender = d.agent) THEN Revert(c, call, "caller is not agent")
        ELSE IF d.paused THEN Revert(c, call, "EnforcedPause")
        ELSE IF ~(Len(holders) = Len(amounts)) THEN Revert(c, call, "length mismatch")
        ELSE IF ~(Len(holders) > 0) THEN Revert(c, call, "empty arrays")
        ELSE IF ~(total <= d.balance) THEN Revert(c, call, "insufficient balance")
        ELSE [c EXCEPT !.distributor.balance = @ - total,
                       !.distributor.paid = @ + total,
                       !.distributor.pendingDistribution = IF @ >= total THEN @ - total ELSE 0,
                       !.last = call]

---------------------------------------------------------------------------
\* QuestManager (contracts/src/QuestManager.sol). Rewards are whole native
\* units, thresholds whole CLAW.
QuestUsers == {"voter1", "attacker"}
QuestTypes == {"HoldTokens", "ProvideLiquidity"}
QuestRewards == {0, 1}
QuestThreshold == 2

\* The value of quests[qid] for a qid never written (storage default).
NoQuest == [id |-> 0, reward |-> 0, active |-> FALSE, questType |-> "HoldTokens", threshold |-> 0]
questAt(c, qid) == Get(c.quests.quests, qid, NoQuest)

\* The quest manager after deployment and funding. claims is a history field:
\* how often each (quest, user) claimed successfully.
DeployedQuests ==
    [agent |-> "agent", governance |-> "governance", paused |-> FALSE,
     questCount |-> 0, quests |-> EmptyMap,
     questCompleted |-> {}, attestations |-> {},
     balance |-> 3,
     claims |-> [k \in (1..MaxQuests) \X QuestUsers |-> 0]]

QuestCall(fn, sender, qid, user) ==
    [fn |-> fn, sender |-> sender, qid |-> qid, user |-> user, ok |-> TRUE, reason |-> ""]

createQuest(c, sender, reward, questType, threshold) ==
    LET qid == c.quests.questCount + 1
    IN  IF ~(sender = c.quests.agent)
            THEN Revert(c, QuestCall("createQuest", sender, 0, ""), "caller is not agent")
        ELSE [c EXCEPT !.quests.questCount = qid,
                       !.quests.quests = Put(@, qid,
                           [id |-> qid, reward |-> reward, active |-> TRUE,
                            questType |-> questType, threshold |-> threshold]),
                       !.last = QuestCall("createQuest", sender, qid, "")]

deactivateQuest(c, sender, qid) ==
    LET call == QuestCall("deactivateQuest", sender, qid, "")
    IN  IF ~(sender = c.quests.agent) THEN Revert(c, call, "caller is not agent")
        ELSE IF ~(questAt(c, qid).id # 0) THEN Revert(c, call, "quest does not exist")
        ELSE [c EXCEPT !.quests.quests = Put(@, qid, [questAt(c, qid) EXCEPT !.active = FALSE]),
                       !.last = call]

attestQuest(c, sender, qid, user) ==
    LET call == QuestCall("attestQuest", sender, qid, user)
    IN  IF ~(sender = c.quests.agent) THEN Revert(c, call, "caller is not agent")
        ELSE IF ~(questAt(c, qid).id # 0) THEN Revert(c, call, "quest does not exist")
        ELSE [c EXCEPT !.quests.attestations = @ \cup {<<qid, user>>}, !.last = call]

questPause(c, sender, paused) ==
    LET call == QuestCall(IF paused THEN "pause" ELSE "unpause", sender, 0, "")
    IN  IF ~(sender = c.quests.governance) THEN Revert(c, call, "caller is not governance")
        ELSE IF paused /\ c.quests.paused THEN Revert(c, call, "EnforcedPause")
        ELSE IF ~paused /\ ~c.quests.paused THEN Revert(c, call, "ExpectedPause")
        ELSE [c EXCEPT !.quests.paused = paused, !.last = call]

\* Mutant: the questCompleted check is missing.
verifyAndClaimQuest_withoutCompletedCheck(c, sender, qid) ==
    LET m == c.quests
        q == questAt(c, qid)
        call == QuestCall("verifyAndClaimQuest", sender, qid, sender)
    IN  IF m.paused THEN Revert(c, call, "EnforcedPause")
        ELSE IF ~(q.id # 0) THEN Revert(c, call, "quest does not exist")
        ELSE IF ~q.active THEN Revert(c, call, "quest not active")
        ELSE IF q.questType = "HoldTokens" /\ ~(c.balances[sender] >= q.threshold)
            THEN Revert(c, call, "insufficient CLAW balance")
        ELSE IF q.questType # "HoldTokens" /\ ~(<<qid, sender>> \in m.attestations)
            THEN Revert(c, call, "not attested by agent")
        ELSE IF q.reward > 0 /\ ~(m.balance >= q.reward)
            THEN Revert(c, call, "insufficient reward funds")
        ELSE [c EXCEPT !.quests.questCompleted = @ \cup {<<qid, sender>>},
                       !.quests.balance = @ - q.reward,
                       !.quests.claims[<<qid, sender>>] = @ + 1,
                       !.last = call]

\* The callers are externally owned accounts: the reward transfer succeeds.
verifyAndClaimQuest(c, sender, qid) ==
    LET m == c.quests
        q == questAt(c, qid)
        call == QuestCall("verifyAndClaimQuest", sender, qid, sender)
    IN  IF m.paused THEN Revert(c, call, "EnforcedPause")
        ELSE IF ~(q.id # 0) THEN Revert(c, call, "quest does not exist")
        ELSE IF ~q.active THEN Revert(c, call, "quest not active")
        ELSE IF ~(<<qid, sender>> \notin m.questCompleted) THEN Revert(c, call, "already completed")
        ELSE IF q.questType = "HoldTokens" /\ ~(c.balances[sender] >= q.threshold)
            THEN Revert(c, call, "insufficient CLAW balance")
        ELSE IF q.questType # "HoldTokens" /\ ~(<<qid, sender>> \in m.attestations)
            THEN Revert(c, call, "not attested by agent")
        ELSE IF q.reward > 0 /\ ~(m.balance >= q.reward)
            THEN Revert(c, call, "insufficient reward funds")
        ELSE [c EXCEPT !.quests.questCompleted = @ \cup {<<qid, sender>>},
                       !.quests.balance = @ - q.reward,
                       !.quests.claims[<<qid, sender>>] = @ + 1,
                       !.last = call]

\* The chain after deployment (beforeEach of the contract tests); transfers
\* counts the token transfers sent so far.
Deployed ==
    [blockNumber |-> 1, balances |-> InitialBalances, proposalCount |-> 0,
     proposals |-> EmptyMap, hasVoted |-> {}, last |-> NoCall,
     treasury |-> DeployedTreasury, distributor |-> DeployedDistributor,
     quests |-> DeployedQuests, transfers |-> 0]

\* CLAWToken is an OpenZeppelin ERC20: transfer moves amount from the sender
\* to the recipient and reverts when the sender's balance is too small; the
\* total supply is the sum of the balances.
TransferCall(sender, to, amount) ==
    [fn |-> "transfer", sender |-> sender, to |-> to, amount |-> amount,
     ok |-> TRUE, reason |-> ""]
transfer(c, sender, to, amount) ==
    LET call == TransferCall(sender, to, amount)
    IN  IF ~(c.balances[sender] >= amount) THEN Revert(c, call, "ERC20InsufficientBalance")
        ELSE [c EXCEPT !.balances = [a \in Accounts |->
                                        CASE a = sender /\ a = to -> @[a]
                                          [] a = sender -> @[a] - amount
                                          [] a = to -> @[a] + amount
                                          [] OTHER -> @[a]],
                       !.last = call]
totalSupply(c) == SumOver(c.balances, Accounts)

createProposal(c, sender) ==
    LET pid == c.proposalCount + 1
    IN  IF ~(c.balances[sender] >= minProposalTokens)
            THEN Revert(c, Call("createProposal", sender, 0, FALSE),
                        "insufficient CLAW to propose")
        ELSE [c EXCEPT !.proposalCount = pid,
                       !.proposals = Put(@, pid,
                           [id |-> pid, proposer |-> sender,
                            startBlock |-> c.blockNumber,
                            endBlock |-> c.blockNumber + votingPeriod,
                            forVotes |-> 0, againstVotes |-> 0, executed |-> FALSE]),
                       !.last = Call("createProposal", sender, pid, FALSE)]

\* Mutant: the hasVoted check is missing.
vote_withoutVotedCheck(c, sender, pid, support) ==
    LET p == proposalAt(c, pid)
        call == Call("vote", sender, pid, support)
        weight == c.balances[sender]
    IN  IF ~(p.id # 0) THEN Revert(c, call, "proposal does not exist")
        ELSE IF ~(c.blockNumber <= p.endBlock) THEN Revert(c, call, "voting ended")
        ELSE IF ~(weight > 0) THEN Revert(c, call, "no voting power")
        ELSE [c EXCEPT !.hasVoted = @ \cup {<<pid, sender>>},
                       !.proposals = Put(@, pid,
                           IF support THEN [p EXCEPT !.forVotes = @ + weight]
                           ELSE [p EXCEPT !.againstVotes = @ + weight]),
                       !.last = call]

vote(c, sender, pid, support) ==
    LET p == proposalAt(c, pid)
        call == Call("vote", sender, pid, support)
        weight == c.balances[sender]
    IN  IF ~(p.id # 0) THEN Revert(c, call, "proposal does not exist")
        ELSE IF ~(c.blockNumber <= p.endBlock) THEN Revert(c, call, "voting ended")
        ELSE IF ~(<<pid, sender>> \notin c.hasVoted) THEN Revert(c, call, "already voted")
        ELSE IF ~(weight > 0) THEN Revert(c, call, "no voting power")
        ELSE [c EXCEPT !.hasVoted = @ \cup {<<pid, sender>>},
                       !.proposals = Put(@, pid,
                           IF support THEN [p EXCEPT !.forVotes = @ + weight]
                           ELSE [p EXCEPT !.againstVotes = @ + weight]),
                       !.last = call]

\* Mutant: a tie is enough to execute.
executeProposal_tiePasses(c, sender, pid) ==
    LET p == proposalAt(c, pid)
        call == Call("executeProposal", sender, pid, FALSE)
    IN  IF ~(p.id # 0) THEN Revert(c, call, "proposal does not exist")
        ELSE IF ~(c.blockNumber > p.endBlock) THEN Revert(c, call, "voting not ended")
        ELSE IF ~(~p.executed) THEN Revert(c, call, "already executed")
        ELSE IF ~(p.forVotes >= p.againstVotes) THEN Revert(c, call, "proposal rejected")
        ELSE [c EXCEPT !.proposals = Put(@, pid, [p EXCEPT !.executed = TRUE]),
                       !.last = call]

executeProposal(c, sender, pid) ==
    LET p == proposalAt(c, pid)
        call == Call("executeProposal", sender, pid, FALSE)
    IN  IF ~(p.id # 0) THEN Revert(c, call, "proposal does not exist")
        ELSE IF ~(c.blockNumber > p.endBlock) THEN Revert(c, call, "voting not ended")
        ELSE IF ~(~p.executed) THEN Revert(c, call, "already executed")
        ELSE IF ~(p.forVotes > p.againstVotes) THEN Revert(c, call, "proposal rejected")
        ELSE [c EXCEPT !.proposals = Put(@, pid, [p EXCEPT !.executed = TRUE]),
                       !.last = call]

\* lines 43-47: the state startAgentLoop builds before the first tick
Init ==
    /\ portfolioState = [totalExposure |-> 0, allocations |-> EmptyMap,
                         lastTradeTimestamps |-> EmptyMap]
    /\ now = 0
    /\ ticks = [t \in TickIds |-> IdleTick]
    /\ started = 0
    /\ intervalArmed = FALSE
    /\ nextFire = 0
    /\ riskIn = NoRiskCall
    /\ riskOut = NoRiskCall
    /\ chain = Deployed
    /\ indexer = ModuleLoaded

\* line 183: await tick()
InitialTick ==
    /\ started = 0
    /\ started' = 1
    /\ ticks' = [ticks EXCEPT ![1].pc = "fetch"]
    /\ UNCHANGED <<portfolioState, now, intervalArmed, nextFire, riskIn, riskOut, chain, indexer>>

\* line 186: the interval timer calls tick, whatever earlier invocations do
TimerDue == intervalArmed /\ now >= nextFire /\ started + 1 \in TickIds

TimerFire ==
    /\ TimerDue
    /\ started' = started + 1
    /\ ticks' = [reclaim(ticks) EXCEPT ![started + 1].pc = "fetch"]
    /\ nextFire' = now + POLL_INTERVAL_MS
    /\ UNCHANGED <<portfolioState, now, intervalArmed, riskIn, riskOut, chain, indexer>>

\* line 62: fetchTokens resolves, with a snapshot of `snapshots` per token
FetchResolve(t, snapshots, dbOutcomes) ==
    /\ ticks[t].pc = "fetch"
    /\ \E choice \in [1..Len(TOKEN_DEFS) -> snapshots], dbFails \in dbOutcomes :
         LET r == afterFetch(ticks[t], portfolioState, marketDataOf(choice), now, t, dbFails)
         IN  /\ ticks' = [ticks EXCEPT ![t] = r.tick]
             /\ portfolioState' = r.ps
             /\ resumeMain(t, r.tick)
    /\ UNCHANGED <<now, started, riskIn, riskOut, chain, indexer>>

\* line 62: fetchTokens rejects; control goes to the catch of line 176
FetchReject(t) ==
    /\ ticks[t].pc = "fetch"
    /\ LET tk == catchError(ticks[t], "fetchTokens rejected")
       IN  /\ ticks' = [ticks EXCEPT ![t] = tk]
           /\ resumeMain(t, tk)
    /\ UNCHANGED <<portfolioState, now, started, riskIn, riskOut, chain, indexer>>

\* line 97: executeTrade resolves, with a result of `results`; a successful
\* execution is then saved (line 138), and the loop goes on
ExecResolve(t, results, dbOutcomes) ==
    /\ ticks[t].pc = "exec"
    /\ \E result \in results, dbFails \in dbOutcomes :
         LET h == handleResult(ticks[t], portfolioState, result, now)
             saved == IF result.success THEN afterSave(saveExecution(dbFails), h.tick)
                      ELSE h.tick
             r == IF saved.pc = "aborted" THEN [tick |-> saved, ps |-> h.ps]
                  ELSE continueLoop(saved, h.ps, t)
         IN  /\ ticks' = [ticks EXCEPT ![t] = r.tick]
             /\ portfolioState' = r.ps
             /\ resumeMain(t, r.tick)
    /\ UNCHANGED <<now, started, riskIn, riskOut, chain, indexer>>

\* line 97: executeTrade rejects; control goes to the catch of line 176
ExecReject(t) ==
    /\ ticks[t].pc = "exec"
    /\ LET tk == catchError(ticks[t], "executeTrade rejected")
       IN  /\ ticks' = [ticks EXCEPT ![t] = tk]
           /\ resumeMain(t, tk)
    /\ UNCHANGED <<portfolioState, now, started, riskIn, riskOut, chain, indexer>>

\* Time passes while the event loop is idle, and a due timer fires before more
\* time passes.  The clock is observed once per cooldown period: a timer is
\* never early, and fires at the first observed instant at or after its due
\* time.
AdvanceClock(maxAdvances) ==
    /\ ~TimerDue
    /\ \/ \E t \in TickIds : InFlight(ticks[t])
       \/ intervalArmed
    /\ now + cooldownMs <= maxAdvances * cooldownMs
    /\ now' = now + cooldownMs
    /\ UNCHANGED <<portfolioState, ticks, started, intervalArmed, nextFire, riskIn, riskOut, chain, indexer>>

Next ==
    \/ InitialTick
    \/ TimerFire
    \/ \E t \in TickIds : FetchResolve(t, Snapshots, {FALSE})
    \/ \E t \in TickIds : FetchReject(t)
    \/ \E t \in TickIds : ExecResolve(t, ExecutionResults, {FALSE})
    \/ \E t \in TickIds : ExecReject(t)
    \/ AdvanceClock(MaxAdvances)

Spec == Init /\ [][Next]_vars

\* The event loop runs: time passes, and a due timer fires.
SpecFair ==
    /\ Spec
    /\ WF_vars(TimerFire)
    /\ WF_vars(AdvanceClock(MaxAdvances))

\* The same loop in a rising market with a reliable execution boundary: no
\* snapshot scores SELL and every execution succeeds.
NextRising ==
    \/ InitialTick
    \/ TimerFire
    \/ \E t \in TickIds : FetchResolve(t, {SnapUp, SnapFlat}, {FALSE})
    \/ \E t \in TickIds : ExecResolve(t, {ExecSuccess}, {FALSE})
    \/ AdvanceClock(MaxAdvancesRising)

SpecRising == Init /\ [][NextRising]_vars

\* The same loop with a database that may fail on any insert.
NextSink ==
    \/ InitialTick
    \/ TimerFire
    \/ \E t \in TickIds : FetchResolve(t, Snapshots, BOOLEAN)
    \/ \E t \in TickIds : FetchReject(t)
    \/ \E t \in TickIds : ExecResolve(t, ExecutionResults, BOOLEAN)
    \/ \E t \in TickIds : ExecReject(t)
    \/ AdvanceClock(MaxAdvancesSink)

SpecSink == Init /\ [][NextSink]_vars

---------------------------------------------------------------------------
\* A stand-alone call of the risk gate: any decision, snapshot, portfolio state
\* and time.
RiskSizes == {0, 100, 150, 151, 200}
RiskExposures == {0, 400, 450, 500, 550}
RiskLiquidities == {99999, 100000, 200000}
RiskNow == 2 * cooldownMs
RiskLastTrades == {RiskNow, RiskNow - cooldownMs + 1, RiskNow - cooldownMs,
                   RiskNow - cooldownMs - 1}

RiskPortfolios ==
    {[totalExposure |-> e,
      allocations |-> IF e = 0 THEN EmptyMap ELSE Put(EmptyMap, "BETA", e),
      lastTradeTimestamps |-> EmptyMap] : e \in RiskExposures}
    \cup
    {[totalExposure |-> e,
      allocations |-> Put(EmptyMap, "ALPHA", e),
      lastTradeTimestamps |-> Put(EmptyMap, "ALPHA", lt)] :
        e \in RiskExposures \ {0}, lt \in RiskLastTrades}

RiskCalls ==
    {[called |-> TRUE,
      token |-> [marketDataOf([i \in 1..Len(TOKEN_DEFS) |-> SnapUp])[1]
                    EXCEPT !.liquidity = liq],
      decision |-> [score(marketDataOf([i \in 1..Len(TOKEN_DEFS) |-> SnapUp])[1])
                    EXCEPT !.action = a, !.suggestedSize = size]] :
        liq \in RiskLiquidities, a \in {"BUY", "SELL"}, size \in RiskSizes}

InitRisk ==
    /\ portfolioState \in RiskPortfolios
    /\ now = RiskNow
    /\ ticks = [t \in TickIds |-> IdleTick]
    /\ started = 0
    /\ intervalArmed = FALSE
    /\ nextFire = 0
    /\ riskIn \in RiskCalls
    /\ riskOut = NoRiskCall
    /\ chain = Deployed
    /\ indexer = ModuleLoaded

RiskCall ==
    /\ riskOut = NoRiskCall
    /\ riskOut' = evaluateRisk(riskIn.token, riskIn.decision, portfolioState, now)
    /\ UNCHANGED <<portfolioState, now, ticks, started, intervalArmed, nextFire, riskIn, chain, indexer>>

\* The decision that passed is executed successfully (index.ts:109-121, 144),
\* and the same call is made again after a delay.
RiskDelays == {0, 60000, cooldownMs - 1, cooldownMs}

RiskTrade ==
    /\ "pass" \in DOMAIN riskOut
    /\ riskOut.pass
    /\ now = RiskNow
    /\ LET p == updatePortfolio(portfolioState, riskIn.decision, now)
       IN  portfolioState' = [p EXCEPT !.totalExposure = sumAllocations(p.allocations)]
    /\ \E delay \in RiskDelays : now' = now + delay
    /\ riskOut' = NoRiskCall
    /\ UNCHANGED <<ticks, started, intervalArmed, nextFire, riskIn, chain, indexer>>

NextRisk == RiskCall \/ RiskTrade

SpecRisk == InitRisk /\ [][NextRisk]_vars

---------------------------------------------------------------------------
\* A stand-alone gating of one decision by the engine (the body of
\* decisions.map, lines 158-175): the decision of a strategy for the first
\* token, against a snapshot set that holds that token or lacks it.
GateSnapshots == {SnapUp, SnapFlat, SnapDown, SnapThin}

GateCalls ==
    {[called |-> TRUE,
      tokens |-> IF present THEN marketDataOf(choice) ELSE Tail(marketDataOf(choice)),
      decision |-> score(marketDataOf(choice)[1])] :
        choice \in [1..Len(TOKEN_DEFS) -> GateSnapshots], present \in BOOLEAN}

InitGate ==
    /\ portfolioState \in RiskPortfolios
    /\ now = RiskNow
    /\ ticks = [t \in TickIds |-> IdleTick]
    /\ started = 0
    /\ intervalArmed = FALSE
    /\ nextFire = 0
    /\ riskIn \in GateCalls
    /\ riskOut = NoRiskCall
    /\ chain = Deployed
    /\ indexer = ModuleLoaded

GateCall ==
    /\ riskOut = NoRiskCall
    /\ riskOut' = [decision |-> gate(riskIn.tokens, riskIn.decision, portfolioState, now),
                   log |-> gateLog(riskIn.tokens, riskIn.decision, portfolioState, now)]
    /\ portfolioState' = evaluatePortfolio(riskIn.tokens, portfolioState, now)
    /\ UNCHANGED <<now, ticks, started, intervalArmed, nextFire, riskIn, chain, indexer>>

NextGate == GateCall

SpecGate == InitGate /\ [][NextGate]_vars

---------------------------------------------------------------------------
\* A stand-alone scoring of one snapshot, and its way through the engine at
\* the fresh portfolio state of startAgentLoop.
ScoreValues == {-100, 0, 1, 100, 1000000}
SnapScenario ==
    [priceUsd |-> 100, price5mAgo |-> 90, volume1m |-> 300, volume5m |-> 100,
     liquidity |-> 200000, previousLiquidity |-> 190000]
\* Snapshots that score exactly 75 and exactly 40, and just beyond each.
SnapAtBuy ==
    [priceUsd |-> 115, price5mAgo |-> 100, volume1m |-> 500, volume5m |-> 100,
     liquidity |-> 200000, previousLiquidity |-> 200000]
SnapAtSell ==
    [priceUsd |-> 85, price5mAgo |-> 100, volume1m |-> 100, volume5m |-> 100,
     liquidity |-> 200000, previousLiquidity |-> 200000]
SnapOverBuy == [SnapAtBuy EXCEPT !.liquidity = 201000]
SnapUnderSell == [SnapAtSell EXCEPT !.liquidity = 199000]
ScoreSnapshots ==
    [priceUsd : ScoreValues, price5mAgo : ScoreValues,
     volume1m : ScoreValues, volume5m : ScoreValues,
     liquidity : ScoreValues, previousLiquidity : ScoreValues]
    \cup {SnapScenario, SnapAtBuy, SnapAtSell, SnapOverBuy, SnapUnderSell}

ScoreCalls ==
    {[called |-> TRUE,
      token |-> marketDataOf([i \in 1..Len(TOKEN_DEFS) |-> snap])[1]] :
        snap \in ScoreSnapshots}

InitScore ==
    /\ portfolioState = [totalExposure |-> 0, allocations |-> EmptyMap,
                         lastTradeTimestamps |-> EmptyMap]
    /\ now = 0
    /\ ticks = [t \in TickIds |-> IdleTick]
    /\ started = 0
    /\ intervalArmed = FALSE
    /\ nextFire = 0
    /\ riskIn \in ScoreCalls
    /\ riskOut = NoRiskCall
    /\ chain = Deployed
    /\ indexer = ModuleLoaded

ScoreCall ==
    /\ riskOut = NoRiskCall
    /\ riskOut' = [scored |-> strategyEvaluate(<<riskIn.token>>)[1],
                   returned |-> evaluate(<<riskIn.token>>, portfolioState, now)[1]]
    /\ UNCHANGED <<portfolioState, now, ticks, started, intervalArmed, nextFire, riskIn, chain, indexer>>

NextScore == ScoreCall

SpecScore == InitScore /\ [][NextScore]_vars

---------------------------------------------------------------------------
\* Transactions sent to Governance by any account, and blocks being mined.
\* Several transactions may share a block.
AgentIdle == <<portfolioState, now, ticks, started, intervalArmed, nextFire, riskIn, riskOut, indexer>>

GovCreateProposal ==
    /\ chain.proposalCount < MaxProposals
    /\ \E sender \in Accounts : chain' = createProposal(chain, sender)
    /\ UNCHANGED AgentIdle

GovVote ==
    /\ \E sender \in Accounts, pid \in 1..MaxProposals, support \in BOOLEAN :
         chain' = vote(chain, sender, pid, support)
    /\ UNCHANGED AgentIdle

\* executeProposal does not read msg.sender: one caller stands for all.
GovExecuteProposal ==
    /\ \E pid \in 1..MaxProposals : chain' = executeProposal(chain, "attacker", pid)
    /\ UNCHANGED AgentIdle

MineBlock ==
    /\ chain.blockNumber < MaxBlock
    /\ chain' = [chain EXCEPT !.blockNumber = @ + 1]
    /\ UNCHANGED AgentIdle

\* Holders also move their CLAW between the votes.
TokenTransfer ==
    /\ chain.transfers < MaxTransfers
    /\ \E sender \in Accounts, to \in Accounts, amount \in 1..MaxTransfer :
         chain' = [transfer(chain, sender, to, amount) EXCEPT !.transfers = @ + 1]
    /\ UNCHANGED AgentIdle

GovCreateProposalBounded ==
    /\ chain.proposalCount < MaxProposalsTransfers
    /\ GovCreateProposal

NextGovTransfers ==
    GovCreateProposalBounded \/ GovVote \/ GovExecuteProposal \/ MineBlock \/ TokenTransfer

SpecGovTransfers == Init /\ [][NextGovTransfers]_vars

NextGov == GovCreateProposal \/ GovVote \/ GovExecuteProposal \/ MineBlock

SpecGov == Init /\ [][NextGov]_vars

---------------------------------------------------------------------------
\* Transactions sent to AgentTreasury by the agent or by anyone else.
TreasurySenders == {"agent", "attacker"}

TreasuryExecuteTrade ==
    /\ \E sender \in TreasurySenders, token \in TradedTokens,
          amount \in 0..MaxTradeAmount, isBuy \in BOOLEAN :
         chain' = treasuryExecuteTrade(chain, sender, token, amount, isBuy)
    /\ UNCHANGED AgentIdle

TreasuryUpdateValue ==
    /\ \E sender \in TreasurySenders, value \in TreasuryValues :
         chain' = updateTreasuryValue(chain, sender, value)
    /\ UNCHANGED AgentIdle

NextTreasury == TreasuryExecuteTrade \/ TreasuryUpdateValue

SpecTreasury == Init /\ [][NextTreasury]_vars

---------------------------------------------------------------------------
\* Transactions sent to ProfitDistributor.
SeqsUpTo(S, n) == UNION {[1..k -> S] : k \in 0..n}

DistributorSync ==
    /\ chain.distributor.credited < MaxCredited
    /\ \E sender \in TreasurySenders, currentValue \in 0..MaxSyncValue :
         chain' = syncTreasuryValue(chain, sender, currentValue)
    /\ UNCHANGED AgentIdle

DistributorDistribute ==
    /\ \E sender \in TreasurySenders, holders \in SeqsUpTo(Holders, MaxHolders),
          amounts \in SeqsUpTo(0..MaxPayout, MaxHolders) :
         chain' = distributeTo(chain, sender, holders, amounts)
    /\ UNCHANGED AgentIdle

NextDistributor == DistributorSync \/ DistributorDistribute

SpecDistributor == Init /\ [][NextDistributor]_vars

---------------------------------------------------------------------------
\* Transactions sent to QuestManager by the agent, the governance and users.
QuestCreate ==
    /\ chain.quests.questCount < MaxQuests
    /\ \E sender \in TreasurySenders, reward \in QuestRewards, questType \in QuestTypes :
         chain' = createQuest(chain, sender, reward, questType, QuestThreshold)
    /\ UNCHANGED AgentIdle

QuestDeactivate ==
    /\ \E sender \in TreasurySenders, qid \in 1..MaxQuests :
         chain' = deactivateQuest(chain, sender, qid)
    /\ UNCHANGED AgentIdle

QuestAttest ==
    /\ \E sender \in TreasurySenders, qid \in 1..MaxQuests, user \in QuestUsers :
         chain' = attestQuest(chain, sender, qid, user)
    /\ UNCHANGED AgentIdle

QuestPause ==
    /\ \E sender \in {"governance", "attacker"}, paused \in BOOLEAN :
         chain' = questPause(chain, sender, paused)
    /\ UNCHANGED AgentIdle

QuestClaim ==
    /\ \E sender \in QuestUsers, qid \in 1..MaxQuests :
         chain' = verifyAndClaimQuest(chain, sender, qid)
    /\ UNCHANGED AgentIdle

NextQuests == QuestCreate \/ QuestDeactivate \/ QuestAttest \/ QuestPause \/ QuestClaim

SpecQuests == Init /\ [][NextQuests]_vars

---------------------------------------------------------------------------
\* Calls of fetchTokens, one after the other or overlapping: the cache is only
\* touched in the synchronous part after the await.
FetchTokens ==
    /\ indexer.fetches < MaxFetches
    /\ \E draws \in [1..Len(TOKEN_DEFS) ->
                      [price : RandomDraws, volume : RandomDraws, liquidity : RandomDraws]] :
         LET f == fetchTokens(indexer.cacheByAddress, draws, now)
         IN  indexer' = [cacheByAddress |-> f.cache,
                         fetches |-> indexer.fetches + 1,
                         previous |-> indexer.latest,
                         latest |-> f.results]
    /\ UNCHANGED <<portfolioState, now, ticks, started, intervalArmed, nextFire, riskIn, riskOut, chain>>

NextIndexer == FetchTokens

SpecIndexer == Init /\ [][NextIndexer]_vars

---------------------------------------------------------------------------
\* C1: ticks never overlap: at most one invocation of tick is between its
\* snapshot fetch and the persisting of its audit record.
TicksNeverOverlap == Cardinality({t \in TickIds : InFlight(ticks[t])}) <= 1

\* C2: totalExposure equals the sum of the allocations in every state reached
\* after a portfolio mutation.
ExposureIsSumOfAllocations ==
    portfolioState.totalExposure = sumAllocations(portfolioState.allocations)

\* C3: the sum of the allocations never exceeds maxTotalExposure.
TotalExposureWithinCap ==
    sumAllocations(portfolioState.allocations) <= maxTotalExposure

\* C4: no token's allocation ever exceeds maxAllocationPerToken.
AllocationWithinCap ==
    \A addr \in DOMAIN portfolioState.allocations :
        portfolioState.allocations[addr] <= maxAllocationPerToken

\* A step in which tick t handles a result of executeTrade.
HandlesResult(t) ==
    /\ ticks[t].pc = "exec"
    /\ Len(ticks'[t].executions) = Len(ticks[t].executions) + 1
LastExecution(t) == ticks'[t].executions[Len(ticks'[t].executions)]

\* A successful execution for a token with a last trade is a cooldown after it.
CooldownBetweenTradesStep ==
    \A t \in TickIds :
        (HandlesResult(t) /\ LastExecution(t).success) =>
            LET addr == LastExecution(t).decision.token
            IN  Has(portfolioState.lastTradeTimestamps, addr) =>
                    now - portfolioState.lastTradeTimestamps[addr] >= cooldownMs
\* C5: two successful executions for the same token are at least
\* cooldownMinutes apart: a successful execution for a token that has a last
\* trade timestamp happens at least cooldownMs after it.
CooldownBetweenTrades == [][CooldownBetweenTradesStep]_vars

\* The four rules of the gate, each on its own, for the call in riskIn.
RuleViolated(i) ==
    LET addr == riskIn.token.token
        size == riskIn.decision.suggestedSize
    IN  CASE i = 1 -> size > maxAllocationPerToken
          [] i = 2 -> portfolioState.totalExposure + size > maxTotalExposure
          [] i = 3 -> riskIn.token.liquidity < minLiquidityUsd
          [] i = 4 -> /\ Has(portfolioState.lastTradeTimestamps, addr)
                      /\ now - portfolioState.lastTradeTimestamps[addr] < cooldownMs
RuleNames == <<RuleAllocation, RuleExposure, RuleLiquidity, RuleCooldown>>
RiskReturned == "pass" \in DOMAIN riskOut

\* C6: the gate reports the lowest-numbered violated rule, in the order
\* allocation cap, exposure cap, liquidity floor, cooldown, and passes when no
\* rule is violated; a size of 0.20 fails with the allocation-cap reason.
FirstViolatedRuleReported ==
    RiskReturned =>
        LET violated == {i \in 1..4 : RuleViolated(i)}
        IN  /\ (violated = {}) <=> riskOut.pass
            /\ violated # {} =>
                 riskOut.reason = RuleNames[CHOOSE i \in violated : \A j \in violated : i <= j]
            /\ riskIn.decision.suggestedSize = 200 => riskOut.reason = RuleAllocation

\* C6 witness: a call that violates all four rules has returned.
AllRulesViolatedCall ==
    /\ RiskReturned
    /\ \A i \in 1..4 : RuleViolated(i)

\* C7: when the execution boundary raises for a decision, the tick is not
\* aborted and the failure is recorded in an execution record with the error.
ExecutionRaiseDoesNotAbort ==
    \A t \in TickIds :
        ticks[t].error = "executeTrade rejected" =>
            /\ ticks[t].pc # "aborted"
            /\ \E i \in 1..Len(ticks[t].executions) :
                 /\ ~ticks[t].executions[i].success
                 /\ ticks[t].executions[i].error = "executeTrade rejected"

\* C8: a tick that has produced its decisions and has ended has persisted an
\* audit record holding all its decisions and all its executions.
AuditRecordPersisted ==
    \A t \in TickIds :
        (Finished(ticks[t]) /\ ticks[t].k >= 1) =>
            /\ Len(ticks[t].audit) = 1
            /\ ticks[t].audit[1].decisions = ticks[t].decisions
            /\ ticks[t].audit[1].executions = ticks[t].executions

TradeEvents(events) == SelectSeq(events, LAMBDA e : e.type = "TRADE_EXECUTED")

\* The handling of a result with success=false, and what a persisted record holds.
FailureRecordedStep ==
    /\ \A t \in TickIds :
        (HandlesResult(t) /\ ~LastExecution(t).success) =>
            LET tk == ticks[t]
            IN  /\ LastExecution(t) = [decision |-> tk.actionable[tk.k],
                                       txHash |-> "undefined",
                                       success |-> FALSE,
                                       error |-> "execution failed"]
                /\ portfolioState'.allocations = portfolioState.allocations
                /\ portfolioState'.lastTradeTimestamps = portfolioState.lastTradeTimestamps
                /\ TradeEvents(ticks'[t].events) = TradeEvents(tk.events)
                /\ IF tk.k < Len(tk.actionable)
                       THEN /\ ticks'[t].pc = "exec"
                            /\ ticks'[t].actionable = tk.actionable
                            /\ ticks'[t].k = tk.k + 1
                       ELSE ticks'[t].pc = "done"
    /\ \A t \in TickIds :
        Len(ticks'[t].audit) = 1 => ticks'[t].audit[1].executions = ticks'[t].executions
\* C9: when executeTrade returns success=false, an execution record with
\* success=false and the error joins the executions of the tick (which are the
\* executions of its audit record), allocations and lastTradeTimestamps do not
\* change, no TRADE_EXECUTED event is emitted, and the next actionable decision
\* is dispatched (or, after the last one, the tick completes).
FailureRecorded == [][FailureRecordedStep]_vars

\* C9 witness: a tick has handled a failed execution and then the result of
\* the next decision, and has persisted both.
FailureThenNextHandled ==
    \E t \in TickIds :
        /\ Len(ticks[t].audit) = 1
        /\ Len(ticks[t].audit[1].executions) = 2
        /\ ~ticks[t].audit[1].executions[1].success

\* Allocations after a step, and after a successful SELL beyond the position.
SellClampedStep ==
    /\ \A addr \in DOMAIN portfolioState'.allocations :
        portfolioState'.allocations[addr] >= 0
    /\ \A t \in TickIds :
        (/\ HandlesResult(t)
         /\ LastExecution(t).success
         /\ LastExecution(t).decision.action = "SELL"
         /\ LastExecution(t).decision.suggestedSize >=
                Get(portfolioState.allocations, LastExecution(t).decision.token, 0)) =>
            /\ Has(portfolioState'.allocations, LastExecution(t).decision.token)
            /\ portfolioState'.allocations[LastExecution(t).decision.token] = 0
\* C10: no allocation is ever negative, and a successful SELL of more than
\* the token's allocation (or of a token without one) leaves it at 0.
AllocationsNeverNegative == [][SellClampedStep]_vars

\* C10 witness: a token without a position has been sold successfully.
SoldWithoutPosition ==
    \E addr \in Tokens :
        /\ Has(portfolioState.allocations, addr)
        /\ portfolioState.allocations[addr] = 0
        /\ Has(portfolioState.lastTradeTimestamps, addr)

\* A decision the risk gate has downgraded carries the appended rationale.
RiskBlocked(d) == Len(d.reason) > 1

\* C11: executeTrade is only ever called with a BUY or SELL decision of the
\* tick: the decision being executed and every executed decision is non-HOLD,
\* and no token whose decision the gate downgraded to HOLD is executed.
HoldNeverExecuted ==
    \A t \in TickIds :
        LET tk == ticks[t]
        IN  /\ tk.pc = "exec" => tk.actionable[tk.k].action \in {"BUY", "SELL"}
            /\ \A i \in 1..Len(tk.executions) :
                 /\ tk.executions[i].decision.action \in {"BUY", "SELL"}
                 /\ \E j \in 1..Len(tk.decisions) :
                      tk.decisions[j] = tk.executions[i].decision
            /\ \A j \in 1..Len(tk.decisions) :
                 (tk.decisions[j].action = "HOLD") =>
                     /\ \A i \in 1..Len(tk.actionable) :
                          tk.actionable[i].token # tk.decisions[j].token
                     /\ \A i \in 1..Len(tk.executions) :
                          tk.executions[i].decision.token # tk.decisions[j].token

\* C11 witness: a tick is executing a decision while another of its decisions
\* was downgraded to HOLD by the gate.
ExecutingBesideDowngrade ==
    \E t \in TickIds :
        /\ ticks[t].pc = "exec"
        /\ \E j \in 1..Len(ticks[t].decisions) :
             /\ RiskBlocked(ticks[t].decisions[j])
             /\ ticks[t].decisions[j].action = "HOLD"

\* C12: the events of a tick are ordered: its one DECISION event comes first,
\* every TRADE_EXECUTED event after it, and its one PORTFOLIO_UPDATE event
\* after all of them, as the last event of the tick.
EventsOrdered ==
    \A t \in TickIds :
        LET ev == ticks[t].events
        IN  \A i \in 1..Len(ev) :
                /\ ev[i].type = "DECISION" <=> i = 1
                /\ ev[i].type = "PORTFOLIO_UPDATE" =>
                     (i = Len(ev) /\ ticks[t].pc = "done")
                /\ ev[i].type = "TRADE_EXECUTED" =>
                     /\ \E j \in 1..(i - 1) : ev[j].type = "DECISION"
                     /\ \A j \in 1..i : ev[j].type # "PORTFOLIO_UPDATE"
                /\ (ticks[t].pc = "done") => ev[Len(ev)].type = "PORTFOLIO_UPDATE"

\* C12 witness: a tick has completed with two trades between its DECISION and
\* its PORTFOLIO_UPDATE.
TwoTradesBetween ==
    \E t \in TickIds :
        /\ ticks[t].pc = "done"
        /\ Len(TradeEvents(ticks[t].events)) = 2
        /\ Len(ticks[t].events) = 4

\* The catch at the tick boundary has run, whatever raised, and the loop goes on.
LoopSurvives ==
    /\ (started >= 1 /\ ticks[1].error # "none" /\ ~InFlight(ticks[1])) => intervalArmed
    /\ \A t \in TickIds : ticks[t].error # "none" => ~InFlight(ticks[t])
\* C13: a tick that raises (in the fetch or in an execution) ends at its catch,
\* the first tick included: the interval timer is armed after it, and while
\* the clock can still advance a later tick is eventually started.
BadTickDoesNotStopLoop ==
    /\ []LoopSurvives
    /\ \A t \in TickIds :
         (ticks[t].pc = "aborted" /\ now < MaxAdvances * cooldownMs) ~> (started > t)

\* C13 witness: the first tick failed at its fetch and a second tick was started.
SecondTickAfterFailedFirst ==
    /\ ticks[1].error = "fetchTokens rejected"
    /\ started >= 2
    /\ ticks[2].pc # "idle"

\* The gating in riskIn has returned; its decision has a snapshot in the set;
\* the rules (in gate order) that the decision violates against that snapshot.
GateReturned == "decision" \in DOMAIN riskOut
GateHasSnapshot == \E i \in 1..Len(riskIn.tokens) : riskIn.tokens[i].token = riskIn.decision.token
GateViolated ==
    LET d == riskIn.decision
        lt == portfolioState.lastTradeTimestamps
    IN  {i \in 1..4 :
            \E k \in 1..Len(riskIn.tokens) :
                /\ riskIn.tokens[k].token = d.token
                /\ CASE i = 1 -> d.suggestedSize > maxAllocationPerToken
                     [] i = 2 -> portfolioState.totalExposure + d.suggestedSize > maxTotalExposure
                     [] i = 3 -> riskIn.tokens[k].liquidity < minLiquidityUsd
                     [] i = 4 -> Has(lt, d.token) /\ now - lt[d.token] < cooldownMs}

\* C14: a non-HOLD decision that fails the gate is returned as a new decision
\* with action HOLD, size 0 and the original rationale followed by the RISK
\* BLOCKED suffix naming the failed rule; token, confidence and momentum score
\* are kept, and the decision of the strategy is left as it was.
BlockedDecisionDerived ==
    (GateReturned /\ riskIn.decision.action # "HOLD" /\ GateViolated # {}) =>
        LET d == riskIn.decision
            g == riskOut.decision
            first == CHOOSE i \in GateViolated : \A j \in GateViolated : i <= j
        IN  /\ g.action = "HOLD"
            /\ g.suggestedSize = 0
            /\ Len(g.reason) = Len(d.reason) + 2
            /\ SubSeq(g.reason, 1, Len(d.reason)) = d.reason
            /\ SubSeq(g.reason, Len(d.reason) + 1, Len(g.reason)) = <<"RISK BLOCKED", RuleNames[first]>>
            /\ g.token = d.token
            /\ g.confidence = d.confidence
            /\ g.momentumScore = d.momentumScore
            /\ d.action \in {"BUY", "SELL"}
            /\ d.suggestedSize > 0
            /\ d.reason = <<"momentum">>

\* C14 witness: a BUY below the liquidity floor has been downgraded.
ThinBuyDowngraded ==
    /\ GateReturned
    /\ riskIn.decision.action = "BUY"
    /\ GateViolated = {3}
    /\ riskOut.decision.action = "HOLD"

\* C15: a returned decision with action HOLD has size 0, whether the scorer
\* produced the HOLD or the gate downgraded a decision to it.
HoldHasZeroSize ==
    GateReturned => (riskOut.decision.action = "HOLD" => riskOut.decision.suggestedSize = 0)

\* C15 witness: a SELL of positive size, inside the cooldown, came back as HOLD.
SellInCooldownReturnedHold ==
    /\ GateReturned
    /\ riskIn.decision.action = "SELL"
    /\ riskIn.decision.suggestedSize > 0
    /\ 4 \in GateViolated
    /\ riskOut.decision.action = "HOLD"

\* C18: a decision whose token has no snapshot in the set is returned as it
\* is, with its action, size and rationale, whatever the rules would say.
MissingSnapshotPassesThrough ==
    (GateReturned /\ ~GateHasSnapshot) => riskOut.decision = riskIn.decision

\* C18 witness: a BUY without a snapshot came back as a BUY although its token
\* is inside the cooldown and the exposure cap would be exceeded.
UngatedBuyReturned ==
    /\ GateReturned
    /\ ~GateHasSnapshot
    /\ riskOut.decision.action = "BUY"
    /\ Has(portfolioState.lastTradeTimestamps, riskIn.decision.token)
    /\ now - portfolioState.lastTradeTimestamps[riskIn.decision.token] < cooldownMs
    /\ portfolioState.totalExposure + riskIn.decision.suggestedSize > maxTotalExposure

\* C19: a non-HOLD decision that passes through ungated for want of a
\* snapshot leaves a warning in the log.
UngatedPassThroughWarned ==
    (GateReturned /\ ~GateHasSnapshot /\ riskIn.decision.action # "HOLD") =>
        \E i \in 1..Len(riskOut.log) : riskOut.log[i].level = "warn"

\* C16: with a last successful trade of the token at time t, a call made
\* before t + cooldownMinutes is rejected (with the cooldown reason when the
\* other three rules hold), a call at or after t + cooldownMinutes that
\* satisfies the other three rules passes, and a token without a last trade
\* is never rejected for the cooldown.
CooldownGate ==
    RiskReturned =>
        LET addr == riskIn.token.token
            lt == portfolioState.lastTradeTimestamps
            othersHold == \A i \in 1..3 : ~RuleViolated(i)
        IN  /\ (Has(lt, addr) /\ now < lt[addr] + cooldownMs) =>
                 /\ ~riskOut.pass
                 /\ othersHold => riskOut.reason = RuleCooldown
            /\ (Has(lt, addr) /\ now >= lt[addr] + cooldownMs /\ othersHold) => riskOut.pass
            /\ ~Has(lt, addr) =>
                 /\ riskOut.reason # RuleCooldown
                 /\ othersHold => riskOut.pass

\* C16 witness: the call that passed at a fresh state and was executed is
\* repeated one minute later and fails with the cooldown reason.
RepeatedWithinMinuteBlocked ==
    /\ RiskReturned
    /\ now = RiskNow + 60000
    /\ DOMAIN portfolioState.lastTradeTimestamps = {riskIn.token.token}
    /\ portfolioState.lastTradeTimestamps[riskIn.token.token] = RiskNow
    /\ DOMAIN portfolioState.allocations = {riskIn.token.token}
    /\ ~riskOut.pass
    /\ riskOut.reason = RuleCooldown

ScoreReturned == "scored" \in DOMAIN riskOut
ScenarioScored ==
    /\ ScoreReturned
    /\ riskIn.token = marketDataOf([i \in 1..Len(TOKEN_DEFS) |-> SnapScenario])[1]

\* C17: the snapshot {price=100, price5mAgo=90, volume1m=300, volume5m=100,
\* liquidity=200000, previousLiquidity=190000} scores above 75, hence BUY, and
\* the engine returns the BUY at a fresh portfolio state.
ScenarioScoresBuy ==
    ScenarioScored =>
        /\ riskOut.scored.momentumScore > BUY_THRESHOLD * 1000
        /\ riskOut.scored.action = "BUY"
        /\ riskOut.returned.action = "BUY"

\* C17 as amended: that snapshot scores about 68.8 (27.4 + 22.5 + 18.9),
\* between the SELL and the BUY threshold, hence HOLD with size 0, and the
\* engine returns the decision as scored.
ScenarioScoresHold ==
    ScenarioScored =>
        /\ riskOut.scored.momentumScore >= 68000
        /\ riskOut.scored.momentumScore <= 69000
        /\ riskOut.scored.momentumScore >= SELL_THRESHOLD * 1000
        /\ riskOut.scored.momentumScore <= BUY_THRESHOLD * 1000
        /\ riskOut.scored.action = "HOLD"
        /\ riskOut.scored.suggestedSize = 0
        /\ riskOut.returned = riskOut.scored

\* C17 witness: the scenario snapshot has been scored with a positive score.
ScenarioScoredPositive ==
    /\ ScenarioScored
    /\ riskOut.scored.momentumScore > 0

\* C20: for every snapshot the momentum score is in [0,100] and the
\* confidence is in [0,1] and is the score over 100.
ScoreAndConfidenceInRange ==
    ScoreReturned =>
        LET d == riskOut.scored
        IN  /\ d.momentumScore >= 0
            /\ d.momentumScore <= 100 * 1000
            /\ d.confidence >= 0
            /\ d.confidence <= 1000
            /\ d.confidence * 100 <= d.momentumScore
            /\ d.momentumScore < (d.confidence + 1) * 100

\* C20 witness: a snapshot with a zero earlier price, a negative earlier
\* volume and an extreme liquidity has been scored.
DegenerateSnapshotScored ==
    /\ ScoreReturned
    /\ riskIn.token.price5mAgo = 0
    /\ riskIn.token.volume5m < 0
    /\ riskIn.token.liquidity = 1000000
    /\ riskIn.token.previousLiquidity = 1

\* C21: the thresholds are strict: BUY exactly for a score above 75, SELL
\* exactly for a score below 40, HOLD for every score from 40 to 75 with both
\* bounds; the size is POSITION_SIZE times the confidence for BUY and SELL and
\* 0 for HOLD.
ThresholdsStrict ==
    ScoreReturned =>
        LET d == riskOut.scored
        IN  /\ d.action = "BUY" <=> d.momentumScore > BUY_THRESHOLD * 1000
            /\ d.action = "SELL" <=> d.momentumScore < SELL_THRESHOLD * 1000
            /\ d.action = "HOLD" <=>
                 (d.momentumScore >= SELL_THRESHOLD * 1000 /\ d.momentumScore <= BUY_THRESHOLD * 1000)
            /\ d.action = "HOLD" => d.suggestedSize = 0
            /\ d.action # "HOLD" =>
                 /\ d.suggestedSize * 1000 <= POSITION_SIZE * d.confidence
                 /\ POSITION_SIZE * d.confidence < (d.suggestedSize + 1) * 1000

\* C21 witness: a score of exactly 75 has been classified.
ScoredExactlyBuyThreshold ==
    /\ ScoreReturned
    /\ riskOut.scored.momentumScore = BUY_THRESHOLD * 1000
    /\ riskIn.token.priceUsd = 115

\* The snapshot in riskIn has all three previous values at 0.
PreviousAllZero ==
    /\ riskIn.token.price5mAgo = 0
    /\ riskIn.token.volume5m = 0
    /\ riskIn.token.previousLiquidity = 0

\* C22: with all previous values at 0 the raw signals are neutral (0, 1, 0),
\* each normalised value is 0.5 and the result is a score of 50, HOLD, size 0.
ZeroPreviousScoresNeutral ==
    (ScoreReturned /\ PreviousAllZero) =>
        /\ safeDelta(riskIn.token.priceUsd, riskIn.token.price5mAgo) = 0
        /\ safeRatio(riskIn.token.volume1m, riskIn.token.volume5m) = 1000
        /\ safeDelta(riskIn.token.liquidity, riskIn.token.previousLiquidity) = 0
        /\ normalise(0, PRICE_CAP) = 500
        /\ normalise(1000 - 1000, VOLUME_CAP - 1000) = 500
        /\ normalise(0, LIQUIDITY_CAP) = 500
        /\ riskOut.scored.momentumScore = 50 * 1000
        /\ riskOut.scored.confidence = 500
        /\ riskOut.scored.action = "HOLD"
        /\ riskOut.scored.suggestedSize = 0
        /\ riskOut.returned = riskOut.scored

\* C22 witness: a snapshot with zero previous values and large current values
\* has been scored.
ZeroPreviousLargeCurrentScored ==
    /\ ScoreReturned
    /\ PreviousAllZero
    /\ riskIn.token.priceUsd = 1000000
    /\ riskIn.token.volume1m = 1000000
    /\ riskIn.token.liquidity = 1000000

\* What a step does to lastTradeTimestamps.
TimestampStep ==
    LET lt == portfolioState.lastTradeTimestamps
        ltNext == portfolioState'.lastTradeTimestamps
    IN  /\ DOMAIN lt \subseteq DOMAIN ltNext
        /\ \A addr \in DOMAIN ltNext :
             (addr \notin DOMAIN lt \/ ltNext[addr] # lt[addr]) =>
                 \E t \in TickIds :
                     /\ HandlesResult(t)
                     /\ LastExecution(t).success
                     /\ LastExecution(t).decision.token = addr
                     /\ ltNext[addr] = now
        /\ \A t \in TickIds :
             HandlesResult(t) =>
                 IF LastExecution(t).success
                     THEN /\ LastExecution(t).decision.action \in {"BUY", "SELL"}
                          /\ Has(ltNext, LastExecution(t).decision.token)
                          /\ ltNext[LastExecution(t).decision.token] = now
                     ELSE ltNext = lt
\* C23: lastTradeTimestamps starts empty; an entry is written only in the
\* handling of a successful execution for its token, and every successful
\* execution, BUY or SELL, sets it to the current time; a failed execution
\* leaves the map as it is.
TimestampOnlyOnSuccess ==
    /\ portfolioState.lastTradeTimestamps = EmptyMap
    /\ [][TimestampStep]_vars

\* C23 witness: a tick has sold one token successfully, which is stamped,
\* and failed on another, which has no entry.
SellStampedFailureNot ==
    \E t \in TickIds :
        /\ Len(ticks[t].executions) = 2
        /\ ticks[t].executions[1].success
        /\ ticks[t].executions[1].decision.action = "SELL"
        /\ ~ticks[t].executions[2].success
        /\ DOMAIN portfolioState.lastTradeTimestamps = {ticks[t].executions[1].decision.token}

\* The handling of a failure after a success in the same tick.
NoRollbackStep ==
    \A t \in TickIds :
        (/\ HandlesResult(t)
         /\ ~LastExecution(t).success
         /\ \E i \in 1..Len(ticks[t].executions) : ticks[t].executions[i].success) =>
            /\ portfolioState'.allocations = portfolioState.allocations
            /\ portfolioState'.lastTradeTimestamps = portfolioState.lastTradeTimestamps
            /\ \A i \in 1..Len(ticks[t].executions) :
                 ticks[t].executions[i].success =>
                     /\ Has(portfolioState'.allocations, ticks[t].executions[i].decision.token)
                     /\ Has(portfolioState'.lastTradeTimestamps, ticks[t].executions[i].decision.token)
            /\ ticks'[t].pc = "done" =>
                 portfolioState'.totalExposure = sumAllocations(portfolioState.allocations)
\* C24: there is no rollback: handling a failed execution keeps the
\* allocations and timestamps written for the earlier successful executions
\* of the tick, and the exposure recomputed at the end counts them.
NoRollback == [][NoRollbackStep]_vars

\* C24 witness: a tick has completed with a successful BUY followed by a
\* failure, and the bought allocation is in the portfolio.
BuyKeptAfterFailure ==
    \E t \in TickIds :
        /\ ticks[t].pc = "done"
        /\ Len(ticks[t].executions) = 2
        /\ ticks[t].executions[1].success
        /\ ticks[t].executions[1].decision.action = "BUY"
        /\ ~ticks[t].executions[2].success
        /\ Get(portfolioState.allocations, ticks[t].executions[1].decision.token, 0) >=
               ticks[t].executions[1].decision.suggestedSize
        /\ portfolioState.totalExposure >= ticks[t].executions[1].decision.suggestedSize

\* C25: for a size within the allocation cap the gate fails with the
\* exposure-cap reason exactly when totalExposure + size > maxTotalExposure:
\* 0.55 + 0.10 fails, 0.40 + 0.10 and a projected exposure of exactly 0.60 do
\* not fail this rule.
ExposureCapStrict ==
    (RiskReturned /\ riskIn.decision.suggestedSize <= maxAllocationPerToken) =>
        LET e == portfolioState.totalExposure
            size == riskIn.decision.suggestedSize
        IN  /\ (~riskOut.pass /\ riskOut.reason = RuleExposure) <=> (e + size > maxTotalExposure)
            /\ (e = 550 /\ size = 100) => (~riskOut.pass /\ riskOut.reason = RuleExposure)
            /\ (e = 400 /\ size = 100) => riskOut.reason # RuleExposure
            /\ (e + size = maxTotalExposure) => riskOut.reason # RuleExposure

\* C25 witness: a call with a projected exposure of exactly the cap has passed.
ProjectedAtCapPassed ==
    /\ RiskReturned
    /\ portfolioState.totalExposure = 500
    /\ riskIn.decision.suggestedSize = 100
    /\ riskOut.pass

\* The number of decisions of a tick that have been handed to executeTrade.
Dispatched(tk) ==
    IF tk.pc = "exec" \/ (tk.pc = "aborted" /\ tk.error = "executeTrade rejected")
        THEN tk.k
    ELSE IF tk.pc = "done" THEN tk.k - 1
    ELSE 0

\* C26: the actionable decisions of a tick are dispatched once each, one at a
\* time and in the order produced: the executions recorded are a prefix of
\* the actionable decisions, the pending call is for the next one, and a tick
\* that has ended has dispatched all of them.
DispatchedOnceInOrder ==
    \A t \in TickIds :
        LET tk == ticks[t]
        IN  /\ Len(tk.executions) <= Len(tk.actionable)
            /\ \A i \in 1..Len(tk.executions) : tk.executions[i].decision = tk.actionable[i]
            /\ tk.pc = "exec" => tk.k = Len(tk.executions) + 1
            /\ Finished(tk) => Dispatched(tk) = Len(tk.actionable)

\* C27: a failure inside the persistence sink stays there: a tick in which a
\* save failed is never ended by it (only a rejection of the execution
\* boundary aborts it), and when it completes it has dispatched every
\* actionable decision, updated the portfolio and emitted TRADE_EXECUTED for
\* every successful execution, emitted PORTFOLIO_UPDATE and persisted its
\* audit record.
SinkFailureContained ==
    \A t \in TickIds :
        LET tk == ticks[t]
            successes == {i \in 1..Len(tk.executions) : tk.executions[i].success}
        IN  tk.sinkFailed =>
                /\ tk.error \in {"none", "executeTrade rejected"}
                /\ tk.pc = "aborted" => tk.error = "executeTrade rejected"
                /\ Len(TradeEvents(tk.events)) = Cardinality(successes)
                /\ \A i \in successes :
                     /\ Has(portfolioState.allocations, tk.executions[i].decision.token)
                     /\ Has(portfolioState.lastTradeTimestamps, tk.executions[i].decision.token)
                /\ tk.pc = "done" =>
                     /\ Len(tk.executions) = Len(tk.actionable)
                     /\ tk.events[Len(tk.events)].type = "PORTFOLIO_UPDATE"
                     /\ Len(tk.audit) = 1
                     /\ tk.audit[1].decisions = tk.decisions
                     /\ tk.audit[1].executions = tk.executions

\* C27 witness: a tick in which a save failed has completed with two
\* successful executions.
CompletedDespiteSinkFailure ==
    \E t \in TickIds :
        /\ ticks[t].sinkFailed
        /\ ticks[t].pc = "done"
        /\ Len(ticks[t].executions) = 2
        /\ \A i \in 1..2 : ticks[t].executions[i].success

\* C28: a gating by the engine leaves totalExposure, allocations and
\* lastTradeTimestamps as they were, whatever its outcome.
EngineLeavesPortfolio ==
    [][(riskOut = NoRiskCall /\ "decision" \in DOMAIN riskOut') =>
          /\ portfolioState'.totalExposure = portfolioState.totalExposure
          /\ portfolioState'.allocations = portfolioState.allocations
          /\ portfolioState'.lastTradeTimestamps = portfolioState.lastTradeTimestamps]_vars

\* C28 witness: a BUY has passed the gate at an exposure of 0.40 and the
\* portfolio state still shows 0.40 and no trade for another token.
PassedAndPortfolioKept ==
    /\ GateReturned
    /\ GateHasSnapshot
    /\ riskOut.decision.action = "BUY"
    /\ portfolioState.totalExposure = 400
    /\ portfolioState.lastTradeTimestamps = EmptyMap

---------------------------------------------------------------------------
\* A step that is one vote transaction, and the tallies it may touch.
VoteStep == chain' # chain /\ chain'.blockNumber = chain.blockNumber /\ chain'.last.fn = "vote"
TalliesKept ==
    \A pid \in 1..MaxProposals :
        /\ proposalAt(chain', pid).forVotes = proposalAt(chain, pid).forVotes
        /\ proposalAt(chain', pid).againstVotes = proposalAt(chain, pid).againstVotes
OtherVoteRejections ==
    LET call == chain'.last
        p == proposalAt(chain, call.pid)
    IN  /\ p.id = 0 => ~call.ok /\ TalliesKept
        /\ chain.balances[call.sender] = 0 => ~call.ok /\ TalliesKept
        /\ chain.blockNumber > p.endBlock => ~call.ok /\ TalliesKept

\* C29 as stated: after a successful vote by an address on a proposal, every
\* later vote by that address on it reverts with 'already voted' and leaves
\* the tallies unchanged; votes on a nonexistent proposal, by a caller with
\* zero balance, or after endBlock are rejected.
LaterVoteStepSaysAlreadyVoted ==
    VoteStep =>
        LET call == chain'.last
        IN  /\ <<call.pid, call.sender>> \in chain.hasVoted =>
                    ~call.ok /\ call.reason = "already voted" /\ TalliesKept
            /\ OtherVoteRejections
LaterVoteAlwaysAlreadyVoted == [][LaterVoteStepSaysAlreadyVoted]_vars

\* C29: an address votes at most once on a proposal: after its vote succeeded,
\* every later vote by it on that proposal reverts and leaves forVotes and
\* againstVotes unchanged, with 'already voted' while block.number <= endBlock
\* and with 'voting ended' afterwards (the period is checked first); votes on
\* a nonexistent proposal, by a caller with zero balance, or after endBlock
\* are rejected too.
LaterVoteStepReverts ==
    VoteStep =>
        LET call == chain'.last
            p == proposalAt(chain, call.pid)
        IN  /\ <<call.pid, call.sender>> \in chain.hasVoted =>
                    /\ ~call.ok
                    /\ call.reason = IF chain.blockNumber <= p.endBlock
                                         THEN "already voted" ELSE "voting ended"
                    /\ TalliesKept
            /\ OtherVoteRejections
VoteAtMostOnce == [][LaterVoteStepReverts]_vars
\* A second vote inside the voting period was turned away.
SecondVoteReverted ==
    /\ chain.last.fn = "vote" /\ ~chain.last.ok /\ chain.last.reason = "already voted"
    /\ <<chain.last.pid, chain.last.sender>> \in chain.hasVoted
    /\ proposalAt(chain, chain.last.pid).forVotes + proposalAt(chain, chain.last.pid).againstVotes > 0

\* A step that is one executeProposal transaction.
ExecuteStep ==
    chain' # chain /\ chain'.blockNumber = chain.blockNumber /\ chain'.last.fn = "executeProposal"
ExecuteStepChecked ==
    ExecuteStep =>
        LET call == chain'.last
            p == proposalAt(chain, call.pid)
        IN  /\ call.ok <=> /\ p.id # 0
                            /\ chain.blockNumber > p.endBlock
                            /\ ~p.executed
                            /\ p.forVotes > p.againstVotes
            /\ call.ok => chain'.proposals = Put(chain.proposals, call.pid, [p EXCEPT !.executed = TRUE])
            /\ ~call.ok => chain'.proposals = chain.proposals
            /\ chain'.hasVoted = chain.hasVoted /\ chain'.proposalCount = chain.proposalCount
ExecutedStays ==
    \A pid \in 1..MaxProposals :
        proposalAt(chain, pid).executed => proposalAt(chain', pid) = proposalAt(chain, pid)
ExecutedWasCarried ==
    \A pid \in 1..MaxProposals :
        LET p == proposalAt(chain, pid)
        IN  p.executed => /\ chain.blockNumber > p.endBlock
                          /\ p.forVotes > p.againstVotes
\* C30: executeProposal succeeds exactly when the proposal exists, block.number >
\* endBlock, it was not executed before and forVotes > againstVotes, and reverts
\* without touching the proposals otherwise (before the period ends, on a tie or
\* a majority against, on a second execution, for a nonexistent proposal); an
\* executed proposal is never changed again, so it is executed at most once, and
\* every executed proposal is past its endBlock with a strict majority in favour.
ExecutedOnceAfterMajority ==
    /\ []ExecutedWasCarried
    /\ [][ExecuteStepChecked /\ ExecutedStays]_vars
\* A second execution of an executed proposal was turned away.
SecondExecutionReverted ==
    /\ chain.last.fn = "executeProposal" /\ ~chain.last.ok
    /\ chain.last.reason = "already executed"
    /\ proposalAt(chain, chain.last.pid).executed

---------------------------------------------------------------------------
\* C31: with totalTreasuryValue > 0, every token's allocation in basis points of
\* the treasury value is at most maxAllocationBps, in every state reachable
\* through executeTrade and updateTreasuryValue.
TreasuryAllocationWithinBps ==
    chain.treasury.totalTreasuryValue > 0 =>
        \A token \in TradedTokens : allocPct(chain.treasury, token) <= chain.treasury.maxAllocationBps

\* A step that is one syncTreasuryValue transaction that was not reverted.
SyncStep ==
    /\ chain' # chain
    /\ chain'.last.fn = "syncTreasuryValue" /\ chain'.last.ok
    /\ chain'.last.prev = chain.distributor.lastSnapshotValue
\* C32: syncTreasuryValue(v) with previous snapshot s: if v > s and v - s >=
\* profitThreshold, pendingDistribution grows by exactly (v - s) * distributionBps
\* / 10000 (integer division) and the snapshot becomes v; if v > s and v - s <
\* profitThreshold, pendingDistribution is unchanged; if v <= s the snapshot
\* becomes v and pendingDistribution is unchanged.
SyncStepCases ==
    SyncStep =>
        LET d == chain.distributor
            e == chain'.distributor
            v == chain'.last.currentValue
            s == d.lastSnapshotValue
        IN  /\ (v > s /\ v - s >= d.profitThreshold) =>
                    /\ e.pendingDistribution =
                           d.pendingDistribution + ((v - s) * d.distributionBps) \div 10000
                    /\ e.lastSnapshotValue = v
            /\ (v > s /\ v - s < d.profitThreshold) =>
                    /\ e.pendingDistribution = d.pendingDistribution
                    /\ e.credited = d.credited
            /\ v <= s =>
                    /\ e.lastSnapshotValue = v
                    /\ e.pendingDistribution = d.pendingDistribution
SyncCreditsProfitShare == [][SyncStepCases]_vars
\* A profit of exactly the threshold was credited.
ThresholdProfitCredited ==
    /\ chain.last.fn = "syncTreasuryValue" /\ chain.last.ok
    /\ chain.last.currentValue - chain.last.prev = PROFIT_THRESHOLD
    /\ chain.distributor.lastSnapshotValue = chain.last.currentValue
    /\ chain.distributor.pendingDistribution >= 1

\* C38: the total native amount sent by distributeTo never exceeds the total
\* amount that syncTreasuryValue added to pendingDistribution.
PaidWithinCredited == chain.distributor.paid <= chain.distributor.credited

\* A step that is one verifyAndClaimQuest transaction.
ClaimStep == chain' # chain /\ chain'.last.fn = "verifyAndClaimQuest"
ClaimedAtMostOnce == \A k \in DOMAIN chain.quests.claims : chain.quests.claims[k] <= 1
InactiveOrPausedClaimReverts ==
    LET call == chain'.last
    IN  (chain.quests.paused \/ ~questAt(chain, call.qid).active) =>
            /\ ~call.ok
            /\ chain'.quests.questCompleted = chain.quests.questCompleted
            /\ chain'.quests.balance = chain.quests.balance

\* C33 as stated: every (quest, user) claims successfully at most once, a second
\* claim reverts with 'already completed', and a claim on a deactivated quest or
\* while paused reverts without marking the quest completed.
SecondClaimStepSaysAlreadyCompleted ==
    ClaimStep =>
        LET call == chain'.last
        IN  /\ <<call.qid, call.sender>> \in chain.quests.questCompleted =>
                    ~call.ok /\ call.reason = "already completed"
            /\ InactiveOrPausedClaimReverts
SecondClaimAlwaysAlreadyCompleted ==
    /\ []ClaimedAtMostOnce
    /\ [][SecondClaimStepSaysAlreadyCompleted]_vars

\* C33: every (quest, user) claims successfully at most once, so the reward is
\* paid at most once; a second claim reverts and pays nothing, with 'already
\* completed' when the contract is not paused and the quest is still active,
\* and with the reason of the earlier check otherwise (paused, 'quest not
\* active'); a claim on a deactivated quest or while paused reverts without
\* marking the quest completed.
SecondClaimStepReverts ==
    ClaimStep =>
        LET call == chain'.last
        IN  /\ <<call.qid, call.sender>> \in chain.quests.questCompleted =>
                    /\ ~call.ok
                    /\ call.reason = IF chain.quests.paused THEN "EnforcedPause"
                                     ELSE IF ~questAt(chain, call.qid).active THEN "quest not active"
                                     ELSE "already completed"
                    /\ chain'.quests.balance = chain.quests.balance
            /\ InactiveOrPausedClaimReverts
ClaimAtMostOnce ==
    /\ []ClaimedAtMostOnce
    /\ [][SecondClaimStepReverts]_vars
\* A user who was paid the reward claimed again and was turned away.
SecondClaimReverted ==
    /\ chain.last.fn = "verifyAndClaimQuest" /\ ~chain.last.ok
    /\ chain.last.reason = "already completed"
    /\ chain.quests.claims[<<chain.last.qid, chain.last.sender>>] = 1
    /\ questAt(chain, chain.last.qid).reward > 0

\* A decision that went through evaluateRisk: it came back actionable or
\* downgraded by the gate. Its suggestedSize is below maxAllocationPerToken, so
\* the call got to rule 2 and read portfolioState.totalExposure.
Gated(d) == d.action # "HOLD" \/ \E j \in 1..Len(d.reason) : d.reason[j] = "RISK BLOCKED"
\* C34: in every step in which the orchestrator's risk gate reads
\* portfolioState.totalExposure, the value read equals the sum of the
\* allocations at that moment.
GateReadsCurrentExposure ==
    \A t \in TickIds :
        (/\ ticks[t].pc = "fetch"
         /\ \E i \in 1..Len(ticks'[t].decisions) : Gated(ticks'[t].decisions[i]))
        => portfolioState.totalExposure = sumAllocations(portfolioState.allocations)
GateAlwaysReadsCurrentExposure == [][GateReadsCurrentExposure]_vars

\* The same decision in the other direction.
Flip(d) == [d EXCEPT !.action = IF @ = "BUY" THEN "SELL" ELSE "BUY"]
\* C35: the outcome of the risk gate does not depend on the direction: for the
\* same snapshot, size, portfolio state and time the BUY and the SELL get the
\* same pass/fail result and the same violated rule; a SELL whose projected
\* exposure is over maxTotalExposure is rejected, by the exposure-cap rule for
\* every size within the per-token cap (the sizes the strategy produces).
GateIgnoresDirection ==
    RiskReturned =>
        /\ riskOut = evaluateRisk(riskIn.token, Flip(riskIn.decision), portfolioState, now)
        /\ (/\ riskIn.decision.action = "SELL"
            /\ portfolioState.totalExposure + riskIn.decision.suggestedSize > maxTotalExposure) =>
                /\ ~riskOut.pass
                /\ riskIn.decision.suggestedSize <= maxAllocationPerToken =>
                       riskOut.reason = RuleExposure
\* A SELL was rejected by the exposure cap.
SellRejectedByExposureCap ==
    /\ RiskReturned
    /\ riskIn.decision.action = "SELL"
    /\ ~riskOut.pass /\ riskOut.reason = RuleExposure

\* The step that executes a passed SELL of a token with nothing allocated.
EmptySellStep ==
    /\ RiskReturned /\ riskOut.pass /\ riskOut' = NoRiskCall
    /\ riskIn.decision.action = "SELL"
    /\ Get(portfolioState.allocations, riskIn.token.token, 0) = 0
EmptySellFrame ==
    EmptySellStep =>
        LET addr == riskIn.token.token
        IN  /\ Get(portfolioState'.allocations, addr, 0) = 0
            /\ portfolioState'.totalExposure = portfolioState.totalExposure
            /\ portfolioState'.totalExposure = sumAllocations(portfolioState'.allocations)
            /\ Has(portfolioState'.lastTradeTimestamps, addr)
            /\ portfolioState'.lastTradeTimestamps[addr] = now
\* After it, inside the cooldown: no direction and no size passes the gate.
EmptySellCoolsDown ==
    LET addr == riskIn.token.token
        ps == portfolioState
    IN  (/\ riskIn.decision.action = "SELL"
         /\ Has(ps.allocations, addr) /\ ps.allocations[addr] = 0
         /\ Has(ps.lastTradeTimestamps, addr)
         /\ now - ps.lastTradeTimestamps[addr] < cooldownMs) =>
            \A a \in {"BUY", "SELL"}, size \in RiskSizes :
                LET r == evaluateRisk(riskIn.token,
                                      [riskIn.decision EXCEPT !.action = a, !.suggestedSize = size],
                                      ps, now)
                IN  /\ ~r.pass
                    /\ (/\ size <= maxAllocationPerToken
                        /\ ps.totalExposure + size <= maxTotalExposure
                        /\ riskIn.token.liquidity >= minLiquidityUsd) => r.reason = RuleCooldown
\* C36: a successful SELL for a token whose allocation is 0 or absent leaves the
\* allocation at 0 and the recomputed totalExposure unchanged, and sets
\* lastTradeTimestamps for the token; until cooldownMinutes have passed every
\* non-HOLD decision for the token is blocked, by the cooldown rule whenever the
\* three earlier rules hold.
EmptySellStartsCooldown ==
    /\ []EmptySellCoolsDown
    /\ [][EmptySellFrame]_vars
\* A SELL of an unallocated token was executed, and the same decision was
\* blocked by the cooldown one minute later.
EmptySellThenBlocked ==
    /\ RiskReturned /\ ~riskOut.pass /\ riskOut.reason = RuleCooldown
    /\ riskIn.decision.action = "SELL"
    /\ Has(portfolioState.allocations, riskIn.token.token)
    /\ portfolioState.allocations[riskIn.token.token] = 0
    /\ Has(portfolioState.lastTradeTimestamps, riskIn.token.token)
    /\ portfolioState.lastTradeTimestamps[riskIn.token.token] = RiskNow
    /\ now = RiskNow + 60000

\* C37: for every proposal forVotes + againstVotes never exceeds the CLAW total
\* supply, also when voters transfer tokens between votes.
VotesWithinSupply ==
    \A pid \in 1..MaxProposals :
        proposalAt(chain, pid).forVotes + proposalAt(chain, pid).againstVotes <= totalSupply(chain)

\* C39: every fetch returns the tokens of TOKEN_DEFS in their order, and for each
\* token and every fetch after the first price1mAgo is the priceUsd of the
\* previous fetch, price5mAgo its price1mAgo, volume5m its volume1m and
\* previousLiquidity its liquidity.
RollingWindowsShift ==
    /\ indexer.fetches >= 1 =>
            /\ Len(indexer.latest) = Len(TOKEN_DEFS)
            /\ \A i \in 1..Len(TOKEN_DEFS) : indexer.latest[i].token = TOKEN_DEFS[i]
    /\ indexer.fetches >= 2 =>
            \A i \in 1..Len(TOKEN_DEFS) :
                LET cur == indexer.latest[i]
                    prev == indexer.previous[i]
                IN  /\ cur.token = prev.token
                    /\ cur.price1mAgo = prev.priceUsd
                    /\ cur.price5mAgo = prev.price1mAgo
                    /\ cur.volume5m = prev.volume1m
                    /\ cur.previousLiquidity = prev.liquidity
\* A third fetch, with three different prices in the window of a token.
ThirdFetchShifted ==
    /\ indexer.fetches = 3
    /\ indexer.latest[1].price5mAgo # indexer.latest[1].price1mAgo
    /\ indexer.latest[1].price1mAgo # indexer.latest[1].priceUsd
    /\ indexer.latest[1].price5mAgo = indexer.previous[1].price1mAgo
    /\ indexer.latest[1].volume5m # indexer.latest[1].volume1m

====
